---- MODULE Spec2Model ----
(***************************************************************************)
(* A model of mipsu (src/mipsu.c), the MIPS32 instruction codec: the word  *)
(* codec (mipsu_decode / mipsu_encode), the literal parser                 *)
(* (mipsu_parse_value), the disassembler (mipsu_disasm), the tokenizer and *)
(* assembler (mipsu_parse_asm / mipsu_asm) and the batch drivers.          *)
(*                                                                         *)
(* Representation.                                                         *)
(*  - A 32-bit word (mipsu_word_t, uint32_t) is the set of the positions   *)
(*    of its 1 bits, a subset of 0..31: | is \cup, & is \cap, << and >>    *)
(*    move positions and drop those that leave 0..31.                      *)
(*  - uint8_t values are naturals 0..255, int16_t values are integers      *)
(*    -32768..32767.                                                       *)
(*  - struct mipsu_field is [type, op, un]: un holds the five bytes of the *)
(*    anonymous union (little-endian, the layout of lines 134-154):        *)
(*    rs = byte 0, rt = byte 1, rd = byte 2, sh = byte 3, fn = byte 4,     *)
(*    imm = bytes 2..3, addr = bytes 0..3.                                 *)
(*  - Text is a sequence of one-character strings; reading a C string at   *)
(*    or past its end yields NUL.                                          *)
(***************************************************************************)
EXTENDS Integers, Sequences, FiniteSets, TLC

VARIABLES
    pc,     \* position in the operation being applied
    w,      \* mipsu_word_t w of the dump functions
    f,      \* mipsu_field_t f
    w0,     \* the word given to mipsu_decode
    f0,     \* the field given to mipsu_encode / mipsu_disasm
    s,      \* const char* s of mipsu_parse_value
    u,      \* bool_t u of mipsu_parse_value
    b,      \* uint8_t b of mipsu_parse_value
    out,    \* *out of mipsu_parse_value
    r,      \* mipsu_result_t r
    c,      \* mipsu_ctx_t c: the flags set in c.flags
    mipsu_chr_buff, \* the text in mipsu_chr_buff
    line,   \* const char* s of mipsu_parse_asm
    mipsu_cp_buff,  \* the bytes of mipsu_cp_buff up to its zero padding
    a,      \* const char* a[4]: offsets into mipsu_cp_buff, -1 when null
    n,      \* size_t n: the number of tokens
    o,      \* the lines written to c.o
    file,   \* the lines of c.f not yet read
    consumed, \* the lines of c.f that fgets has returned
    args,   \* const char** args of mipsu_args_encode, Len(args) its size_t n
    skipped \* bool_t s of mipsu_file_disasm / mipsu_file_asm

codecVars == <<w, f, w0, f0>>
litVars == <<s, u, b, out>>
textVars == <<c, mipsu_chr_buff, line, mipsu_cp_buff, a, n, o>>
fileVars == <<file, consumed, args, skipped>>
vars == <<pc, codecVars, litVars, r, textVars, fileVars>>

(***************************************************************************)
(* Bounds of the model.                                                    *)
(***************************************************************************)
\* 5-bit sub-fields are sampled within RegNear of 0 and of 31.
RegNear == 1
\* op is sampled within OpNear of 0 and of 63.
OpNear == 3
\* fn is sampled within FnNear of 0 and of 63.
FnNear == 1
\* A literal has at most MaxExtra characters beyond its expected digits.
MaxExtra == 1
\* Every literal of at most MaxShort characters over LitAlphabet is tried.
MaxShort == 3

(***************************************************************************)
(* 32-bit arithmetic on bit sets.                                          *)
(***************************************************************************)
WordBits == 0..31

\* The bits of a natural below 2^31.
BitsOf(v) == {i \in 0..30 : (v \div (2^i)) % 2 = 1}

RECURSIVE ValOf(_)
\* The natural a bit set within 0..30 stands for.
ValOf(S) == IF S = {} THEN 0
            ELSE LET i == CHOOSE x \in S : TRUE IN (2^i) + ValOf(S \ {i})

Shl(S, k) == {i + k : i \in S} \cap WordBits
Shr(S, k) == {i - k : i \in S} \cap WordBits
And(S, T) == S \cap T
Or(S, T) == S \cup T

\* (uint8_t)x of a word x.
U8(S) == ValOf(S \cap (0..7))

\* (int16_t)x of a word x: the low 16 bits read as two's complement.
I16(S) == LET v == ValOf(S \cap (0..15)) IN IF v >= 32768 THEN v - 65536 ELSE v

\* (mipsu_word_t)i of an int16_t i: sign extension to 32 bits.
WordOfI16(i) == IF i >= 0 THEN BitsOf(i) ELSE BitsOf(i + 65536) \cup (16..31)

(***************************************************************************)
(* Bit offsets and masks (lines 424-433).                                  *)
(***************************************************************************)
mipsu_op_offset == 26
mipsu_rs_offset == 21
mipsu_rt_offset == 16
mipsu_rd_offset == 11
mipsu_sh_offset == 6

mipsu_6bit_mask == 63
mipsu_5bit_mask == 31
mipsu_16bit_mask == 65535
mipsu_26bit_mask == 67108863

(***************************************************************************)
(* struct mipsu_field (lines 134-154).                                     *)
(***************************************************************************)
MIPSU_TYPE == {"R", "I", "J"}

f_rs(x) == x.un[1]
f_rt(x) == x.un[2]
f_rd(x) == x.un[3]
f_sh(x) == x.un[4]
f_fn(x) == x.un[5]
f_imm(x) == LET v == x.un[3] + 256 * x.un[4] IN IF v >= 32768 THEN v - 65536 ELSE v
f_addr(x) == BitsOf(x.un[1] + 256 * x.un[2] + 65536 * x.un[3]) \cup Shl(BitsOf(x.un[4]), 24)

set_rs(x, v) == [x EXCEPT !.un[1] = v]
set_rt(x, v) == [x EXCEPT !.un[2] = v]
set_rd(x, v) == [x EXCEPT !.un[3] = v]
set_sh(x, v) == [x EXCEPT !.un[4] = v]
set_fn(x, v) == [x EXCEPT !.un[5] = v]
set_imm(x, v) == LET m == IF v < 0 THEN v + 65536 ELSE v
                 IN [x EXCEPT !.un[3] = m % 256, !.un[4] = m \div 256]
set_addr(x, v) == [x EXCEPT !.un[1] = U8(v), !.un[2] = U8(Shr(v, 8)),
                            !.un[3] = U8(Shr(v, 16)), !.un[4] = U8(Shr(v, 24))]

\* memset(f, 0, sizeof(mipsu_field_t)): type 0 is MIPSU_TYPE_R.
ZeroField == [type |-> "R", op |-> 0, un |-> <<0, 0, 0, 0, 0>>]

(***************************************************************************)
(* Decoding (lines 1020-1061).                                             *)
(***************************************************************************)
mipsu_op(x) == U8(And(Shr(x, mipsu_op_offset), BitsOf(mipsu_6bit_mask)))
mipsu_rs(x) == U8(And(Shr(x, mipsu_rs_offset), BitsOf(mipsu_5bit_mask)))
mipsu_rt_swapped(x) == U8(And(Shr(x, mipsu_rs_offset), BitsOf(mipsu_5bit_mask)))
mipsu_rt(x) == U8(And(Shr(x, mipsu_rt_offset), BitsOf(mipsu_5bit_mask)))
mipsu_rd(x) == U8(And(Shr(x, mipsu_rd_offset), BitsOf(mipsu_5bit_mask)))
mipsu_sh(x) == U8(And(Shr(x, mipsu_sh_offset), BitsOf(mipsu_5bit_mask)))
mipsu_fn(x) == U8(And(x, BitsOf(mipsu_6bit_mask)))
mipsu_imm(x) == I16(And(x, BitsOf(mipsu_16bit_mask)))
mipsu_addr_unmasked(x) == x
mipsu_addr(x) == And(x, BitsOf(mipsu_26bit_mask))

\* mipsu_decode(w): g is the indeterminate content of the local f before
\* it is filled in; the members decode does not assign keep it.
mipsu_decode(x, g) ==
    LET vo == mipsu_op(x)
        h == [g EXCEPT !.op = vo]
    IN IF vo = 0
       THEN set_fn(set_sh(set_rd(set_rt(set_rs([h EXCEPT !.type = "R"],
                mipsu_rs(x)), mipsu_rt(x)), mipsu_rd(x)), mipsu_sh(x)), mipsu_fn(x))
       ELSE IF vo = 2 \/ vo = 3
       THEN set_addr([h EXCEPT !.type = "J"], mipsu_addr(x))
       ELSE set_imm(set_rt(set_rs([h EXCEPT !.type = "I"],
                mipsu_rs(x)), mipsu_rt(x)), mipsu_imm(x))

(***************************************************************************)
(* Encoding (lines 1065-1082).                                             *)
(***************************************************************************)
mipsu_encode_imm_unmasked(x) ==
    CASE x.type = "R" ->
           Or(Or(Or(Or(Shl(BitsOf(x.op), mipsu_op_offset),
                       Shl(BitsOf(f_rs(x)), mipsu_rs_offset)),
                    Shl(BitsOf(f_rt(x)), mipsu_rt_offset)),
                 Shl(BitsOf(f_rd(x)), mipsu_rd_offset)),
              Or(Shl(BitsOf(f_sh(x)), mipsu_sh_offset), BitsOf(f_fn(x))))
      [] x.type = "I" ->
           Or(Or(Or(Shl(BitsOf(x.op), mipsu_op_offset),
                    Shl(BitsOf(f_rs(x)), mipsu_rs_offset)),
                 Shl(BitsOf(f_rt(x)), mipsu_rt_offset)),
              WordOfI16(f_imm(x)))
      [] x.type = "J" ->
           Or(Shl(BitsOf(x.op), mipsu_op_offset), f_addr(x))

mipsu_encode(x) ==
    CASE x.type = "R" ->
           Or(Or(Or(Or(Shl(BitsOf(x.op), mipsu_op_offset),
                       Shl(BitsOf(f_rs(x)), mipsu_rs_offset)),
                    Shl(BitsOf(f_rt(x)), mipsu_rt_offset)),
                 Shl(BitsOf(f_rd(x)), mipsu_rd_offset)),
              Or(Shl(BitsOf(f_sh(x)), mipsu_sh_offset), BitsOf(f_fn(x))))
      [] x.type = "I" ->
           Or(Or(Or(Shl(BitsOf(x.op), mipsu_op_offset),
                    Shl(BitsOf(f_rs(x)), mipsu_rs_offset)),
                 Shl(BitsOf(f_rt(x)), mipsu_rt_offset)),
              And(WordOfI16(f_imm(x)), BitsOf(mipsu_16bit_mask)))
      [] x.type = "J" ->
           Or(Shl(BitsOf(x.op), mipsu_op_offset), f_addr(x))

(***************************************************************************)
(* Inputs of the codec: sampled words and fields.                          *)
(***************************************************************************)
Near(k, max) == {v \in 0..max : v <= k \/ v >= max - k}

RegSample == Near(RegNear, 31)
OpSample == Near(OpNear, 63)
FnSample == Near(FnNear, 63)
\* uint8_t members outside their declared width.
WideSample == {32, 64, 255}
ImmSample == {-32768, -1, 0, 1, 32767}
\* uint32_t addr: in range, 2^26 and 2^26 + 1.
AddrSample == {BitsOf(0), BitsOf(1), BitsOf(mipsu_26bit_mask), {26}, {0, 26}, {31}}

\* 0x00221820 (add $3, $1, $2)
ExampleWord == {5, 11, 12, 17, 21}

SampleWords ==
    {ExampleWord} \cup
    { Or(Or(Or(Or(Or(Shl(BitsOf(vo), 26), Shl(BitsOf(vs), 21)), Shl(BitsOf(vt), 16)),
               Shl(BitsOf(vd), 11)), Shl(BitsOf(vh), 6)), BitsOf(vn)) :
        vo \in OpSample, vs \in RegSample, vt \in RegSample, vd \in RegSample,
        vh \in RegSample, vn \in FnSample }

\* Indeterminate content of an unassigned struct mipsu_field.
\* (type and op are assigned on every path that reads them.)
JunkFields == { [type |-> "R", op |-> vb, un |-> <<vb, vb, vb, vb, vb>>] : vb \in {0, 255} }

SampleFields ==
    { [type |-> "R", op |-> vo, un |-> <<vs, vt, vd, vh, vn>>] :
        vo \in {0, 64}, vs \in RegSample \cup WideSample, vt \in RegSample \cup {32},
        vd \in RegSample \cup {255}, vh \in RegSample \cup {32}, vn \in FnSample \cup {64} }
    \cup
    { set_imm([type |-> "I", op |-> vo, un |-> <<vs, vt, 0, 0, vj>>], vi) :
        vo \in (OpSample \ {0, 2, 3}) \cup {65}, vs \in RegSample \cup WideSample,
        vt \in RegSample \cup WideSample, vi \in ImmSample, vj \in {0, 255} }
    \cup
    { set_addr([type |-> "J", op |-> vo, un |-> <<0, 0, 0, 0, vj>>], va) :
        vo \in {2, 3, 66, 67}, va \in AddrSample, vj \in {0, 255} }

\* Sub-fields within their declared bit widths, type tag consistent with op.
WellFormed(x) ==
    /\ x.op \in 0..63
    /\ CASE x.type = "R" -> /\ x.op = 0
                            /\ f_rs(x) <= 31 /\ f_rt(x) <= 31 /\ f_rd(x) <= 31
                            /\ f_sh(x) <= 31 /\ f_fn(x) <= 63
         [] x.type = "I" -> /\ x.op \notin {0, 2, 3}
                            /\ f_rs(x) <= 31 /\ f_rt(x) <= 31
         [] x.type = "J" -> /\ x.op \in {2, 3}
                            /\ f_addr(x) \subseteq 0..25

(***************************************************************************)
(* The codec applied to its inputs.                                        *)
(*   decode flow: w0 --mipsu_decode--> f --mipsu_encode--> w               *)
(*   encode flow: f0 --mipsu_encode--> w --mipsu_decode--> f               *)
(***************************************************************************)
LitIdle == s = <<>> /\ u = FALSE /\ b = 0 /\ out = {} /\ r = "OK"

\* const char* a[4] = {}
NoTokens == <<-1, -1, -1, -1>>

TextIdle ==
    /\ c = {}
    /\ mipsu_chr_buff = <<>>
    /\ line = <<>>
    /\ mipsu_cp_buff = <<>>
    /\ a = NoTokens
    /\ n = 0
    /\ o = <<>>

FileIdle == file = <<>> /\ consumed = <<>> /\ args = <<>> /\ skipped = FALSE

InitCodec ==
    /\ LitIdle
    /\ TextIdle
    /\ FileIdle
    /\ \/ /\ pc = "decode"
          /\ w0 \in SampleWords
          /\ w = w0
          /\ f \in JunkFields
          /\ f0 = f
       \/ /\ pc = "encode"
          /\ f0 \in SampleFields
          /\ f = f0
          /\ w0 = {}
          /\ w = {}

\* mipsu_dump_decoded / mipsu_dump_disasm: f = mipsu_decode(w)
Decode ==
    /\ pc = "decode"
    /\ f' = mipsu_decode(w, f)
    /\ pc' = "decoded"
    /\ UNCHANGED <<w, w0, f0, litVars, r, textVars, fileVars>>

\* mipsu_disasm's .word fallback: mipsu_encode(f) of a decoded f
Reencode ==
    /\ pc = "decoded"
    /\ w' = mipsu_encode(f)
    /\ pc' = "reencoded"
    /\ UNCHANGED <<f, w0, f0, litVars, r, textVars, fileVars>>

\* mipsu_dump_encoded / mipsu_dump_asm: w = mipsu_encode(f)
Encode ==
    /\ pc = "encode"
    /\ w' = mipsu_encode(f)
    /\ pc' = "encoded"
    /\ UNCHANGED <<f, w0, f0, litVars, r, textVars, fileVars>>

\* decoding the word just encoded, into a fresh local field
Redecode ==
    /\ pc = "encoded"
    /\ \E g \in JunkFields : f' = mipsu_decode(w, g)
    /\ pc' = "redecoded"
    /\ UNCHANGED <<w, w0, f0, litVars, r, textVars, fileVars>>

NextCodec == Decode \/ Reencode \/ Encode \/ Redecode

SpecCodec == InitCodec /\ [][NextCodec]_vars

(***************************************************************************)
(* Claims about the word codec.                                            *)
(***************************************************************************)
\* The value of bits hi..lo of a word.
Slice(x, hi, lo) == ValOf({i - lo : i \in x \cap (lo..hi)})

\* C1: for every 32-bit word w, encode(decode(w)) = w, whichever of the
\* three forms the word decodes to.
C1_WordRoundTrip == pc = "reencoded" => w = w0

C1_Witness == /\ pc = "reencoded"
              /\ f.type = "I"
              /\ f_imm(f) < 0
              /\ w = w0

\* C2: for every well-formed field f, decode(encode(f)) has the same type
\* tag and the same value for every sub-field of that form.
C2_FieldRoundTrip ==
    (pc = "redecoded" /\ WellFormed(f0)) =>
        /\ f.type = f0.type
        /\ f.op = f0.op
        /\ CASE f0.type = "R" -> /\ f_rs(f) = f_rs(f0) /\ f_rt(f) = f_rt(f0)
                                 /\ f_rd(f) = f_rd(f0) /\ f_sh(f) = f_sh(f0)
                                 /\ f_fn(f) = f_fn(f0)
             [] f0.type = "I" -> /\ f_rs(f) = f_rs(f0) /\ f_rt(f) = f_rt(f0)
                                 /\ f_imm(f) = f_imm(f0)
             [] f0.type = "J" -> f_addr(f) = f_addr(f0)

C2_Witness == /\ pc = "redecoded"
              /\ WellFormed(f0)
              /\ f0.type = "J"
              /\ f0.op = 3
              /\ f_addr(f0) = 0..25
              /\ f_addr(f) = f_addr(f0)

\* C6: decode extracts op = bits 31-26; op = 0 gives R-form with rs = bits
\* 25-21, rt = bits 20-16, rd = bits 15-11, sh = bits 10-6, fn = bits 5-0;
\* op 2 or 3 gives J-form with addr = bits 25-0; any other op gives I-form
\* with rs, rt as above and imm = bits 15-0 as a signed 16-bit value; and
\* 0x00221820 decodes to R-form rs=1, rt=2, rd=3, sh=0, fn=0x20.
C6_DecodeLayout ==
    pc = "decoded" =>
        /\ f.op = Slice(w0, 31, 26)
        /\ f.op = 0 =>
              /\ f.type = "R"
              /\ f_rs(f) = Slice(w0, 25, 21) /\ f_rt(f) = Slice(w0, 20, 16)
              /\ f_rd(f) = Slice(w0, 15, 11) /\ f_sh(f) = Slice(w0, 10, 6)
              /\ f_fn(f) = Slice(w0, 5, 0)
        /\ f.op \in {2, 3} =>
              /\ f.type = "J"
              /\ f_addr(f) = w0 \cap (0..25)
        /\ f.op \notin {0, 2, 3} =>
              /\ f.type = "I"
              /\ f_rs(f) = Slice(w0, 25, 21) /\ f_rt(f) = Slice(w0, 20, 16)
              /\ f_imm(f) = Slice(w0, 14, 0) - (IF 15 \in w0 THEN 32768 ELSE 0)
        /\ w0 = ExampleWord =>
              /\ f.type = "R"
              /\ f_rs(f) = 1 /\ f_rt(f) = 2 /\ f_rd(f) = 3
              /\ f_sh(f) = 0 /\ f_fn(f) = 32

C6_Witness == /\ pc = "decoded"
              /\ w0 = ExampleWord
              /\ f.type = "R"
              /\ f_rd(f) = 3

\* Each sub-field of the field's form reduced modulo 2^width.
Truncated(x) ==
    LET y == [x EXCEPT !.op = x.op % 64]
    IN CASE x.type = "R" ->
              set_fn(set_sh(set_rd(set_rt(set_rs(y, f_rs(x) % 32), f_rt(x) % 32),
                  f_rd(x) % 32), f_sh(x) % 32), f_fn(x) % 64)
         [] x.type = "I" -> set_rt(set_rs(y, f_rs(x) % 32), f_rt(x) % 32)
         [] x.type = "J" -> set_addr(y, f_addr(x) \cap (0..25))

\* C7: encode truncates every sub-field to its declared bit width: for any
\* field, encode(f) equals encode of the field with each sub-field reduced
\* modulo 2^width.
C7_EncodeMasks == pc = "encoded" => w = mipsu_encode(Truncated(f0))

(***************************************************************************)
(* C strings.                                                              *)
(***************************************************************************)
\* The terminating '\0'.
NUL == ""

\* s[i] (0-based); the terminator at the end of the string.
Ch(str, i) == IF i < Len(str) THEN str[i + 1] ELSE NUL

\* The string at s + k.
Skip(str, k) == SubSeq(str, k + 1, Len(str))

\* s1 is the beginning of s2.
StrPrefix(s1, s2) == Len(s1) <= Len(s2) /\ SubSeq(s2, 1, Len(s1)) = s1

\* !strcmp(s1, s2)
StrEq(s1, s2) == s1 = s2

(***************************************************************************)
(* Literal parser (lines 535-654).                                         *)
(***************************************************************************)
\* mipsu_hex_lut (lines 283-289): every other entry is 0.
mipsu_hex_lut(ch) ==
    CASE ch = "0" -> 0  [] ch = "1" -> 1  [] ch = "2" -> 2  [] ch = "3" -> 3
      [] ch = "4" -> 4  [] ch = "5" -> 5  [] ch = "6" -> 6  [] ch = "7" -> 7
      [] ch = "8" -> 8  [] ch = "9" -> 9
      [] ch = "a" -> 10 [] ch = "b" -> 11 [] ch = "c" -> 12 [] ch = "d" -> 13
      [] ch = "e" -> 14 [] ch = "f" -> 15
      [] ch = "A" -> 10 [] ch = "B" -> 11 [] ch = "C" -> 12 [] ch = "D" -> 13
      [] ch = "E" -> 14 [] ch = "F" -> 15
      [] OTHER -> 0

mipsu_bin_spec(ch) == ch = "B" \/ ch = "b"
mipsu_hex_spec(ch) == ch = "X" \/ ch = "x"

RECURSIVE bin_scan(_, _, _)
\* The for loop of mipsu_bin_valid (lines 541-544); "OK" when it runs out.
bin_scan(str, cnt, i) ==
    IF i < cnt
    THEN IF Ch(str, i) = NUL THEN "MISSING_BITS"
         ELSE IF Ch(str, i) # "0" /\ Ch(str, i) # "1" THEN "BAD_BIN"
         ELSE bin_scan(str, cnt, i + 1)
    ELSE "OK"

mipsu_bin_valid_no_count(str, cnt) == bin_scan(str, cnt, 0)

mipsu_bin_valid(str, cnt) ==
    LET q == bin_scan(str, cnt, 0)
    IN IF q # "OK" THEN q
       ELSE IF Ch(str, cnt) # NUL THEN "TOO_MANY_BITS" ELSE "OK"

RECURSIVE hex_scan(_, _, _)
\* The for loop of mipsu_hex_valid (lines 551-556); "OK" when it runs out.
hex_scan(str, cnt, i) ==
    IF i < cnt
    THEN IF Ch(str, i) = NUL THEN "MISSING_HEXITS"
         ELSE IF Ch(str, i) # "0" /\ mipsu_hex_lut(Ch(str, i)) = 0 THEN "BAD_HEX"
         ELSE hex_scan(str, cnt, i + 1)
    ELSE "OK"

mipsu_hex_valid(str, cnt) ==
    LET q == hex_scan(str, cnt, 0)
    IN IF q # "OK" THEN q
       ELSE IF Ch(str, cnt) # NUL THEN "TOO_MANY_HEXITS" ELSE "OK"

RECURSIVE get_value_loop(_, _, _, _, _)
get_value_loop(str, cnt, sh, i, v) ==
    IF i < cnt
    THEN get_value_loop(str, cnt, sh, i + 1,
                        Or(Shl(v, sh), BitsOf(mipsu_hex_lut(Ch(str, i)))))
    ELSE v

mipsu_get_value(str, cnt, sh) == get_value_loop(str, cnt, sh, 0, {})

\* isspace() and isdigit() of the C locale, as strtol uses them.
IsSpace(ch) == ch \in {" ", "\t", "\n", "\r", "\f"}
DecDigits == <<"0", "1", "2", "3", "4", "5", "6", "7", "8", "9">>
IsDigit(ch) == \E k \in 1..10 : DecDigits[k] = ch
DigitOf(ch) == (CHOOSE k \in 1..10 : DecDigits[k] = ch) - 1

RECURSIVE skip_space(_, _)
skip_space(str, i) == IF IsSpace(Ch(str, i)) THEN skip_space(str, i + 1) ELSE i

\* A long (int64_t) is [neg, hi, lo]: its magnitude is hi * 2^16 + lo with
\* lo below 2^16, and neg tells a negative value.
LongZero == [neg |-> FALSE, hi |-> 0, lo |-> 0]

\* 10 * acc + d, as strtol accumulates a digit.
LongMulAdd(acc, d) ==
    [neg |-> FALSE,
     hi |-> 10 * acc.hi + ((10 * acc.lo + d) \div 65536),
     lo |-> (10 * acc.lo + d) % 65536]

RECURSIVE strtol_digits(_, _, _)
\* [val, e]: the digits from position i on, accumulated onto acc.
strtol_digits(str, i, acc) ==
    IF IsDigit(Ch(str, i))
    THEN strtol_digits(str, i + 1, LongMulAdd(acc, DigitOf(Ch(str, i))))
    ELSE [val |-> acc, e |-> i]

\* The value strtol returns for the digits d read from position i1 on.
strtol_result(d, i1, neg) ==
    IF d.e = i1 THEN [val |-> LongZero, e |-> 0]
    ELSE [val |-> [d.val EXCEPT !.neg = neg /\ (d.val.hi # 0 \/ d.val.lo # 0)], e |-> d.e]

\* The position after an optional sign at i0.
after_sign(str, i0) == IF Ch(str, i0) \in {"-", "+"} THEN i0 + 1 ELSE i0

\* strtol from the first non-space position i0 on.
strtol_from(str, i0) ==
    strtol_result(strtol_digits(str, after_sign(str, i0), LongZero),
                  after_sign(str, i0), Ch(str, i0) = "-")

\* strtol(s, &e, 10): the value and the position e stops at.  Literals of
\* the model have at most thirteen digits, so the magnitude is below 2^44
\* and strtol's clamping to LONG_MAX is never reached.
strtol(str) == strtol_from(str, skip_space(str, 0))

\* v >= (1ll << k) for a non-negative long v and k below 47.
LongGe(v, k) == IF k >= 16 THEN v.hi >= 2^(k - 16) ELSE v.hi > 0 \/ v.lo >= 2^k

\* labs(v)
labs(v) == [v EXCEPT !.neg = FALSE]

\* x - 1 for a word x (modulo 2^32).
WordDec(x) ==
    IF x = {} THEN WordBits
    ELSE (x \ {i \in x : \A j \in x : i <= j}) \cup {i \in WordBits : \A j \in x : i < j}

\* The low 32 bits of the magnitude of a long.
LowWord(v) == Or(BitsOf(v.lo), Shl(BitsOf(v.hi % 65536), 16))

\* (mipsu_word_t)v: the low 32 bits of the two's complement of a long.
WordOfLong(v) == IF v.neg THEN WordBits \ WordDec(LowWord(v)) ELSE LowWord(v)

\* x >= (1u << k) for a word x and k < 32.
WordGe(x, k) == \E i \in x : i >= k

unsigned_overflow_1(v, bits) == LongGe(v, bits)

\* line 581: *out >= (2ll << b)
unsigned_overflow(v, bits) == LongGe(v, bits + 1)

\* mipsu_parse_decimal after *out = strtol(s, &e, 10) returned t
\* (lines 577-586)
decimal_result(str, t, uns, bits) ==
    [out |-> t.val,
     r |-> IF Ch(str, t.e) # NUL THEN "BAD_DEC"
           ELSE IF uns
           THEN IF t.val.neg THEN "FIELD_SIGN"
                ELSE IF unsigned_overflow(t.val, bits) THEN "FIELD_OVERFLOW"
                ELSE "OK"
           ELSE IF LongGe(labs(t.val), bits) THEN "FIELD_OVERFLOW"
           ELSE "OK"]

\* mipsu_parse_decimal (lines 571-587): [r, out], out the value of *out.
mipsu_parse_decimal(str, uns, bits) == decimal_result(str, strtol(str), uns, bits)

field_overflow_gt(x, bits) == bits # 32 /\ ValOf(x) > 2^bits

\* line 615: b != 32 && *out >= (1u << b)
field_overflow(x, bits) == bits # 32 /\ WordGe(x, bits)

\* A zero-prefixed literal read as a decimal numeral after all.
radix_default_decimal(str, o0, uns, bits) ==
    [r |-> mipsu_parse_decimal(str, uns, bits).r,
     out |-> IF mipsu_parse_decimal(str, uns, bits).r = "OK"
             THEN WordOfLong(mipsu_parse_decimal(str, uns, bits).out) ELSE o0]

\* The default case of the switch on s[1] (line 611).
radix_default(str, o0, uns, bits) == [r |-> "BAD_RADIX", out |-> o0]

\* mipsu_parse_value (lines 589-618): [r, out], out the value of *out
\* after the call, o0 its value before.
mipsu_parse_value(str, o0, uns, bits) ==
    IF Ch(str, 0) # "0"
    THEN LET d == mipsu_parse_decimal(str, uns, bits)
         IN [r |-> d.r, out |-> IF d.r = "OK" THEN WordOfLong(d.out) ELSE o0]
    ELSE IF mipsu_hex_spec(Ch(str, 1))
    THEN LET cnt == (bits + 3) \div 4
             q == mipsu_hex_valid(Skip(str, 2), cnt)
         IN IF q # "OK" THEN [r |-> q, out |-> o0]
            ELSE LET v == mipsu_get_value(Skip(str, 2), cnt, 4)
                 IN [r |-> IF field_overflow(v, bits) THEN "FIELD_OVERFLOW" ELSE "OK",
                     out |-> v]
    ELSE IF mipsu_bin_spec(Ch(str, 1))
    THEN LET q == mipsu_bin_valid(Skip(str, 2), bits)
         IN IF q # "OK" THEN [r |-> q, out |-> o0]
            ELSE LET v == mipsu_get_value(Skip(str, 2), bits, 1)
                 IN [r |-> IF field_overflow(v, bits) THEN "FIELD_OVERFLOW" ELSE "OK",
                     out |-> v]
    ELSE radix_default(str, o0, uns, bits)

\* sizeof(mipsu_word_t)
mipsu_word_size == 4

mipsu_parse_word(str, o0) == mipsu_parse_value(str, o0, TRUE, mipsu_word_size * 8)

(***************************************************************************)
(* Inputs of the literal parser.                                           *)
(***************************************************************************)
\* The widths mipsu_parse_value is called with: shift amount and register
\* fields, op and fn, immediate, the encode command's address, word.
Widths == {5, 6, 16, 26, 32}

LitAlphabet == {"0", "1", "2", "F", "b", "x", "g", "-"}

RECURSIVE Strings(_, _)
\* Every string over alphabet of length at most len.
Strings(alphabet, len) ==
    IF len = 0 THEN {<<>>}
    ELSE LET shorter == Strings(alphabet, len - 1)
         IN shorter \cup {Append(str, ch) : str \in shorter, ch \in alphabet}

\* cnt copies of ch, with position p (1-based, 0 for none) replaced by c2.
Poked(ch, cnt, p, c2) == [i \in 1..cnt |-> IF i = p THEN c2 ELSE ch]

\* Bodies of about cnt digits: too few, exact, too many; one odd character.
Bodies(cnt) ==
    { Poked(ch, len, p, c2) :
        ch \in {"0", "1", "F"},
        len \in {k \in 0..(cnt + MaxExtra) : k = 0 \/ k >= cnt - 1},
        p \in {k \in 0..(cnt + MaxExtra) : k <= 2 \/ k >= cnt - 1},
        c2 \in LitAlphabet \cup {"a", "A", "X", "B"} }

Prefixed(bits) ==
    { <<"0", "x">> \o body : body \in Bodies((bits + 3) \div 4) } \cup
    { <<"0", "X">> \o body : body \in Bodies((bits + 3) \div 4) } \cup
    { <<"0", "b">> \o body : body \in Bodies(bits) } \cup
    { <<"0", "B">> \o body : body \in Bodies(bits) }

RECURSIVE DecNat(_)
\* The decimal digits of a natural.
DecNat(v) == IF v < 10 THEN <<DecDigits[v + 1]>>
             ELSE Append(DecNat(v \div 10), DecDigits[(v % 10) + 1])

\* The decimal numeral of an integer.
DecStr(v) == IF v < 0 THEN <<"-">> \o DecNat(0 - v) ELSE DecNat(v)

\* 2^32 - 1, 2^32, 2^33 - 1 and 2^33, with the position of the highest 1
\* bit of each.
BigNumerals ==
    << [str |-> <<"4", "2", "9", "4", "9", "6", "7", "2", "9", "5">>, top |-> 31],
       [str |-> <<"4", "2", "9", "4", "9", "6", "7", "2", "9", "6">>, top |-> 32],
       [str |-> <<"8", "5", "8", "9", "9", "3", "4", "5", "9", "1">>, top |-> 32],
       [str |-> <<"8", "5", "8", "9", "9", "3", "4", "5", "9", "2">>, top |-> 33] >>

\* Decimal literals around the overflow thresholds of a width.
Decimals(bits) ==
    LET k == IF bits > 26 THEN 26 ELSE bits
        vals == {0, 7, 2^k - 1, 2^k, 2^(k + 1) - 1, 2^(k + 1)}
        bigs == IF bits = 32 THEN {BigNumerals[i].str : i \in 1..Len(BigNumerals)} ELSE {}
    IN {DecStr(v) : v \in vals} \cup {DecStr(0 - v) : v \in vals}
       \cup bigs \cup {<<"-">> \o str : str \in bigs}
       \cup {Append(DecStr(7), "x"), <<"+", "7">>, <<" ", "7">>, <<"0", "7">>,
               <<"0", "0", "7">>}

LitSample(bits) == Strings(LitAlphabet, MaxShort) \cup Prefixed(bits) \cup Decimals(bits)

\* Indeterminate content of an unassigned mipsu_word_t.
JunkWords == {{}, WordBits}

CodecIdle == w = {} /\ f = ZeroField /\ w0 = {} /\ f0 = ZeroField

InitLit ==
    /\ pc = "parse"
    /\ CodecIdle
    /\ TextIdle
    /\ FileIdle
    /\ b \in Widths
    /\ u \in BOOLEAN
    /\ s \in LitSample(b)
    /\ out \in JunkWords
    /\ r = "OK"

\* r = mipsu_parse_value(s, &out, u, b)
ParseValue ==
    /\ pc = "parse"
    /\ LET res == mipsu_parse_value(s, out, u, b)
       IN /\ r' = res.r
          /\ out' = res.out
    /\ pc' = "parsed"
    /\ UNCHANGED <<codecVars, s, u, b, textVars, fileVars>>

NextLit == ParseValue

SpecLit == InitLit /\ [][NextLit]_vars

(***************************************************************************)
(* Claims about the literal parser.                                        *)
(***************************************************************************)
HexLower == <<"0", "1", "2", "3", "4", "5", "6", "7", "8", "9",
              "a", "b", "c", "d", "e", "f">>
HexUpper == <<"0", "1", "2", "3", "4", "5", "6", "7", "8", "9",
              "A", "B", "C", "D", "E", "F">>
HexDigitSet == {HexLower[k] : k \in 1..16} \cup {HexUpper[k] : k \in 1..16}
DigitVal(ch) == (CHOOSE k \in 1..16 : HexLower[k] = ch \/ HexUpper[k] = ch) - 1

IsHexLit(str) == Len(str) >= 2 /\ str[1] = "0" /\ str[2] \in {"x", "X"}
IsBinLit(str) == Len(str) >= 2 /\ str[1] = "0" /\ str[2] \in {"b", "B"}

\* ceil(bits / 4)
CeilQuarter(bits) == CHOOSE k \in 0..8 : 4 * k >= bits /\ 4 * (k - 1) < bits

\* The digits a literal of this width must have, and the digit characters.
Expected(str, bits) == IF IsHexLit(str) THEN CeilQuarter(bits) ELSE bits
DigitSet(str) == IF IsHexLit(str) THEN HexDigitSet ELSE {"0", "1"}

\* The expected positions that are missing or hold a non-digit.
Faulty(str, bits) ==
    {i \in 1..Expected(str, bits) :
        i > Len(Skip(str, 2)) \/ Skip(str, 2)[i] \notin DigitSet(str)}

\* The literal has exactly the expected count of digits, all valid.
ExactDigits(str, bits) ==
    /\ IsHexLit(str) \/ IsBinLit(str)
    /\ Faulty(str, bits) = {}
    /\ Len(Skip(str, 2)) = Expected(str, bits)

\* Big-endian accumulation of the digits, as a word.
BigEndian(str) ==
    LET body == Skip(str, 2)
        k == IF IsHexLit(str) THEN 4 ELSE 1
    IN UNION { Shl(BitsOf(DigitVal(body[i])), k * (Len(body) - i)) :
                 i \in 1..Len(body) }

\* C9: a hex literal must be followed by exactly ceil(bits/4) hex digits
\* and a binary literal by exactly bits binary digits: scanning the
\* expected positions left to right, the end of text gives
\* MissingHexits/MissingBits, a non-digit gives BadHex/BadBin, any
\* character after the expected count gives TooManyHexits/TooManyBits;
\* otherwise the value is the big-endian accumulation of the digits.
C9_DigitCount ==
    (pc = "parsed" /\ (IsHexLit(s) \/ IsBinLit(s))) =>
        LET bad == Faulty(s, b)
            first == CHOOSE i \in bad : \A j \in bad : i <= j
        IN IF bad # {}
           THEN IF first > Len(Skip(s, 2))
                THEN r = (IF IsHexLit(s) THEN "MISSING_HEXITS" ELSE "MISSING_BITS")
                ELSE r = (IF IsHexLit(s) THEN "BAD_HEX" ELSE "BAD_BIN")
           ELSE IF Len(Skip(s, 2)) > Expected(s, b)
           THEN r = (IF IsHexLit(s) THEN "TOO_MANY_HEXITS" ELSE "TOO_MANY_BITS")
           ELSE /\ r \in {"OK", "FIELD_OVERFLOW"}
                /\ out = BigEndian(s)

C9_Witness ==
    /\ pc = "parsed"
    /\ IsBinLit(s)
    /\ b = 5
    /\ Len(s) = 8
    /\ Faulty(s, b) = {}
    /\ r = "TOO_MANY_BITS"

\* C10: for a hex or binary literal with the correct digit count and
\* bits # 32, the parser returns Ok(v) exactly when v < 2^bits and
\* FieldOverflow otherwise; with bits = 32 no overflow check applies.  At
\* width 5, "0x1F" gives Ok(31) and "0x20" gives FieldOverflow.
C10_Overflow ==
    pc = "parsed" =>
        /\ ExactDigits(s, b) =>
              IF b # 32
              THEN IF BigEndian(s) \subseteq 0..(b - 1)
                   THEN r = "OK" /\ ValOf(out) = ValOf(BigEndian(s))
                   ELSE r = "FIELD_OVERFLOW"
              ELSE r = "OK" /\ out = BigEndian(s)
        /\ (s = <<"0", "x", "1", "F">> /\ b = 5) => (r = "OK" /\ ValOf(out) = 31)
        /\ (s = <<"0", "x", "2", "0">> /\ b = 5) => r = "FIELD_OVERFLOW"

C10_Witness ==
    /\ pc = "parsed"
    /\ s = <<"0", "x", "2", "0">>
    /\ b = 5
    /\ r = "FIELD_OVERFLOW"

\* A literal without its minus sign, if it has one.
Unsigned(str) == IF Ch(str, 0) = "-" THEN Skip(str, 1) ELSE str

\* The literal is an optional minus sign and one or more decimal digits.
IsNumeral(str) ==
    Unsigned(str) # <<>> /\ \A i \in 1..Len(Unsigned(str)) : IsDigit(Unsigned(str)[i])

\* The literal is a numeral followed by characters that are not digits.
NumeralThenOther(str) ==
    \E k \in 1..(Len(str) - 1) :
        IsNumeral(SubSeq(str, 1, k)) /\ \A i \in (k + 1)..Len(str) : ~IsDigit(str[i])

RECURSIVE NatOf(_)
\* The natural a string of at most nine digits denotes.
NatOf(d) == IF d = <<>> THEN 0 ELSE 10 * NatOf(SubSeq(d, 1, Len(d) - 1)) + DigitOf(d[Len(d)])

\* The position of the highest 1 bit of the magnitude of a numeral, -1 for
\* zero: |v| < 2^k exactly when it is below k.
TopBit(str) ==
    LET d == Unsigned(str)
    IN IF \E i \in 1..Len(BigNumerals) : BigNumerals[i].str = d
       THEN (CHOOSE e \in {BigNumerals[i] : i \in 1..Len(BigNumerals)} : e.str = d).top
       ELSE IF NatOf(d) = 0 THEN -1
       ELSE CHOOSE k \in 0..30 : 2^k <= NatOf(d) /\ (k = 30 \/ NatOf(d) < 2^(k + 1))

\* The numeral denotes a negative value.
IsNegative(str) == Ch(str, 0) = "-" /\ TopBit(str) >= 0

\* C11: a literal not starting with '0' is parsed as decimal: trailing
\* non-numeric characters give BAD_DEC; a signed value v is accepted
\* exactly when |v| < 2^bits, else FIELD_OVERFLOW; an unsigned negative v
\* gives FIELD_SIGN and a non-negative v is accepted exactly when
\* v < 2 * 2^bits, else FIELD_OVERFLOW.
C11_Decimal ==
    (pc = "parsed" /\ Ch(s, 0) # "0") =>
        /\ NumeralThenOther(s) => r = "BAD_DEC"
        /\ (IsNumeral(s) /\ ~u) =>
              r = IF TopBit(s) < b THEN "OK" ELSE "FIELD_OVERFLOW"
        /\ (IsNumeral(s) /\ u) =>
              r = IF IsNegative(s) THEN "FIELD_SIGN"
                  ELSE IF TopBit(s) < b + 1 THEN "OK"
                  ELSE "FIELD_OVERFLOW"
        /\ (IsNumeral(s) /\ r = "OK" /\ ~IsNegative(s) /\ TopBit(s) < 30) =>
              out = BitsOf(NatOf(Unsigned(s)))

\* 63 is accepted as an unsigned 5-bit value.
C11_Witness ==
    /\ pc = "parsed"
    /\ s = <<"6", "3">>
    /\ u
    /\ b = 5
    /\ r = "OK"
    /\ out = BitsOf(63)

\* C12: a literal whose first character is '0' and whose second character
\* is none of x, X, b, B is rejected with BAD_RADIX and the output word
\* is left as it was, never given a decimal value; "0" and "007" are
\* such literals.
C12_ZeroPrefix ==
    (pc = "parsed" /\ Ch(s, 0) = "0" /\ Ch(s, 1) \notin {"x", "X", "b", "B"}) =>
        /\ r = "BAD_RADIX"
        /\ out \in JunkWords
        /\ out # BitsOf(7)

\* The zero-prefixed decimal 007 has been rejected.
C12_Witness ==
    /\ pc = "parsed"
    /\ s = <<"0", "0", "7">>
    /\ r = "BAD_RADIX"
    /\ out = WordBits

(***************************************************************************)
(* Instruction tables (lines 175-281).                                     *)
(***************************************************************************)
\* A null char pointer.
NULL == <<"NULL">>

\* mipsu_reg_lut (lines 175-187), entry i at position i + 1.
mipsu_reg_table == <<
    [name |-> <<"z", "e", "r", "o">>, num |-> <<"0">>],
    [name |-> <<"a", "t">>, num |-> <<"1">>],
    [name |-> <<"v", "0">>, num |-> <<"2">>],
    [name |-> <<"v", "1">>, num |-> <<"3">>],
    [name |-> <<"a", "0">>, num |-> <<"4">>],
    [name |-> <<"a", "1">>, num |-> <<"5">>],
    [name |-> <<"a", "2">>, num |-> <<"6">>],
    [name |-> <<"a", "3">>, num |-> <<"7">>],
    [name |-> <<"t", "0">>, num |-> <<"8">>],
    [name |-> <<"t", "1">>, num |-> <<"9">>],
    [name |-> <<"t", "2">>, num |-> <<"1", "0">>],
    [name |-> <<"t", "3">>, num |-> <<"1", "1">>],
    [name |-> <<"t", "4">>, num |-> <<"1", "2">>],
    [name |-> <<"t", "5">>, num |-> <<"1", "3">>],
    [name |-> <<"t", "6">>, num |-> <<"1", "4">>],
    [name |-> <<"t", "7">>, num |-> <<"1", "5">>],
    [name |-> <<"s", "0">>, num |-> <<"1", "6">>],
    [name |-> <<"s", "1">>, num |-> <<"1", "7">>],
    [name |-> <<"s", "2">>, num |-> <<"1", "8">>],
    [name |-> <<"s", "3">>, num |-> <<"1", "9">>],
    [name |-> <<"s", "4">>, num |-> <<"2", "0">>],
    [name |-> <<"s", "5">>, num |-> <<"2", "1">>],
    [name |-> <<"s", "6">>, num |-> <<"2", "2">>],
    [name |-> <<"s", "7">>, num |-> <<"2", "3">>],
    [name |-> <<"t", "8">>, num |-> <<"2", "4">>],
    [name |-> <<"t", "9">>, num |-> <<"2", "5">>],
    [name |-> <<"k", "0">>, num |-> <<"2", "6">>],
    [name |-> <<"k", "1">>, num |-> <<"2", "7">>],
    [name |-> <<"g", "p">>, num |-> <<"2", "8">>],
    [name |-> <<"s", "p">>, num |-> <<"2", "9">>],
    [name |-> <<"f", "p">>, num |-> <<"3", "0">>],
    [name |-> <<"r", "a">>, num |-> <<"3", "1">>] >>

mipsu_reg_lut(i) == mipsu_reg_table[i + 1]

\* sizeof(mipsu_reg_lut) / sizeof(mipsu_reg_entry_t)
mipsu_regc == Len(mipsu_reg_table)

mipsu_fnv == <<0, 2, 3, 4, 6, 7, 8, 9, 12, 13, 16, 17, 18, 19, 24, 25, 26, 27, 32, 33, 34, 35, 36, 37, 38, 39, 42, 43>>

mipsu_opv == <<2, 3, 4, 5, 6, 7, 8, 9, 12, 13, 15, 32, 33, 35, 36, 37, 40, 41, 43>>

mipsu_fnc == Len(mipsu_fnv)
mipsu_opc == Len(mipsu_opv)

\* An entry the initializer leaves out: all zero, i.e. a null mnemonic,
\* MIPSU_OP_FMT_UNKNOWN (0) and MIPSU_TYPE_R (0).
ZeroEntry == [mnem |-> NULL, fmt |-> "UNKNOWN", type |-> "R"]

\* mipsu_fn_lut[64] (lines 204-245)
mipsu_fn_lut(i) ==
    CASE i = 0 -> [mnem |-> <<"s", "l", "l">>, fmt |-> "RD_RT_SH", type |-> "R"]
      [] i = 2 -> [mnem |-> <<"s", "r", "l">>, fmt |-> "RD_RT_SH", type |-> "R"]
      [] i = 3 -> [mnem |-> <<"s", "r", "a">>, fmt |-> "RD_RT_SH", type |-> "R"]
      [] i = 4 -> [mnem |-> <<"s", "l", "l", "v">>, fmt |-> "RD_RT_RS", type |-> "R"]
      [] i = 6 -> [mnem |-> <<"s", "r", "l", "v">>, fmt |-> "RD_RT_RS", type |-> "R"]
      [] i = 7 -> [mnem |-> <<"s", "r", "a", "v">>, fmt |-> "RD_RT_RS", type |-> "R"]
      [] i = 8 -> [mnem |-> <<"j", "a", "l", "r">>, fmt |-> "RS", type |-> "R"]
      [] i = 9 -> [mnem |-> <<"j", "r">>, fmt |-> "RS", type |-> "R"]
      [] i = 12 -> [mnem |-> <<"s", "y", "s", "c", "a", "l", "l">>, fmt |-> "NONE", type |-> "R"]
      [] i = 13 -> [mnem |-> <<"b", "r", "e", "a", "k">>, fmt |-> "NONE", type |-> "R"]
      [] i = 16 -> [mnem |-> <<"m", "f", "h", "i">>, fmt |-> "RD", type |-> "R"]
      [] i = 17 -> [mnem |-> <<"m", "t", "h", "i">>, fmt |-> "RS", type |-> "R"]
      [] i = 18 -> [mnem |-> <<"m", "f", "l", "o">>, fmt |-> "RD", type |-> "R"]
      [] i = 19 -> [mnem |-> <<"m", "t", "l", "o">>, fmt |-> "RS", type |-> "R"]
      [] i = 24 -> [mnem |-> <<"m", "u", "l", "t">>, fmt |-> "RS_RT", type |-> "R"]
      [] i = 25 -> [mnem |-> <<"m", "u", "l", "t", "u">>, fmt |-> "RS_RT", type |-> "R"]
      [] i = 26 -> [mnem |-> <<"d", "i", "v">>, fmt |-> "RS_RT", type |-> "R"]
      [] i = 27 -> [mnem |-> <<"d", "i", "v", "u">>, fmt |-> "RS_RT", type |-> "R"]
      [] i = 32 -> [mnem |-> <<"a", "d", "d">>, fmt |-> "RD_RS_RT", type |-> "R"]
      [] i = 33 -> [mnem |-> <<"a", "d", "d", "u">>, fmt |-> "RD_RS_RT", type |-> "R"]
      [] i = 34 -> [mnem |-> <<"s", "u", "b">>, fmt |-> "RD_RS_RT", type |-> "R"]
      [] i = 35 -> [mnem |-> <<"s", "u", "b", "u">>, fmt |-> "RD_RS_RT", type |-> "R"]
      [] i = 36 -> [mnem |-> <<"a", "n", "d">>, fmt |-> "RD_RS_RT", type |-> "R"]
      [] i = 37 -> [mnem |-> <<"o", "r">>, fmt |-> "RD_RS_RT", type |-> "R"]
      [] i = 38 -> [mnem |-> <<"x", "o", "r">>, fmt |-> "RD_RS_RT", type |-> "R"]
      [] i = 39 -> [mnem |-> <<"n", "o", "r">>, fmt |-> "RD_RS_RT", type |-> "R"]
      [] i = 42 -> [mnem |-> <<"s", "l", "t">>, fmt |-> "RD_RS_RT", type |-> "R"]
      [] i = 43 -> [mnem |-> <<"s", "l", "t", "u">>, fmt |-> "RD_RS_RT", type |-> "R"]
      [] OTHER -> ZeroEntry

\* mipsu_op_lut[64] (lines 247-281)
mipsu_op_lut(i) ==
    CASE i = 0 -> [mnem |-> <<>>, fmt |-> "NONE", type |-> "R"]
      [] i = 2 -> [mnem |-> <<"j">>, fmt |-> "ADDR", type |-> "J"]
      [] i = 3 -> [mnem |-> <<"j", "a", "l">>, fmt |-> "ADDR", type |-> "J"]
      [] i = 4 -> [mnem |-> <<"b", "e", "q">>, fmt |-> "RS_RT_IMM", type |-> "I"]
      [] i = 5 -> [mnem |-> <<"b", "n", "e">>, fmt |-> "RS_RT_IMM", type |-> "I"]
      [] i = 6 -> [mnem |-> <<"b", "l", "e", "z">>, fmt |-> "RS_IMM", type |-> "I"]
      [] i = 7 -> [mnem |-> <<"b", "g", "t", "z">>, fmt |-> "RS_IMM", type |-> "I"]
      [] i = 8 -> [mnem |-> <<"a", "d", "d", "i">>, fmt |-> "RT_RS_IMM", type |-> "I"]
      [] i = 9 -> [mnem |-> <<"a", "d", "d", "i", "u">>, fmt |-> "RT_RS_IMM", type |-> "I"]
      [] i = 12 -> [mnem |-> <<"a", "n", "d", "i">>, fmt |-> "RT_RS_IMM", type |-> "I"]
      [] i = 13 -> [mnem |-> <<"o", "r", "i">>, fmt |-> "RT_RS_IMM", type |-> "I"]
      [] i = 15 -> [mnem |-> <<"l", "u", "i">>, fmt |-> "RT_IMM", type |-> "I"]
      [] i = 32 -> [mnem |-> <<"l", "b">>, fmt |-> "RT_IMM_RS", type |-> "I"]
      [] i = 33 -> [mnem |-> <<"l", "h">>, fmt |-> "RT_IMM_RS", type |-> "I"]
      [] i = 35 -> [mnem |-> <<"l", "w">>, fmt |-> "RT_IMM_RS", type |-> "I"]
      [] i = 36 -> [mnem |-> <<"l", "b", "u">>, fmt |-> "RT_IMM_RS", type |-> "I"]
      [] i = 37 -> [mnem |-> <<"l", "h", "u">>, fmt |-> "RT_IMM_RS", type |-> "I"]
      [] i = 40 -> [mnem |-> <<"s", "b">>, fmt |-> "RT_IMM_RS", type |-> "I"]
      [] i = 41 -> [mnem |-> <<"s", "h">>, fmt |-> "RT_IMM_RS", type |-> "I"]
      [] i = 43 -> [mnem |-> <<"s", "w">>, fmt |-> "RT_IMM_RS", type |-> "I"]
      [] OTHER -> ZeroEntry

(***************************************************************************)
(* Flags (lines 113-121, 459-461): c.flags is the set of the flags set.    *)
(***************************************************************************)
mipsu_get_flag(cc, flag) == flag \in cc

(***************************************************************************)
(* printf conversions used by the format strings (lines 435-445).          *)
(***************************************************************************)
Spaces(cnt) == [i \in 1..cnt |-> " "]

\* %-8s, %-4s: left-justified in at least width columns.
PadRight(str, width) ==
    IF Len(str) >= width THEN str ELSE str \o Spaces(width - Len(str))

\* %6hi: right-justified in at least width columns.
PadLeft(str, width) ==
    IF Len(str) >= width THEN str ELSE Spaces(width - Len(str)) \o str

XDigits == <<"0", "1", "2", "3", "4", "5", "6", "7",
             "8", "9", "A", "B", "C", "D", "E", "F">>

\* %08X, %04hX, %02hhX of a value of at most cnt hex digits.
HexN(x, cnt) == [i \in 1..cnt |-> XDigits[ValOf(Shr(x, 4 * (cnt - i)) \cap (0..3)) + 1]]

\* "%-8s\n"
mipsu_fmt_none(m) == PadRight(m, 8) \o <<"\n">>

\* "%-8s 0x%08X\n"
mipsu_fmt_hex8(m, x) == PadRight(m, 8) \o <<" ", "0", "x">> \o HexN(x, 8) \o <<"\n">>

\* "%-8s $%-4s\n"
mipsu_fmt_1r(m, r1) == PadRight(m, 8) \o <<" ", "$">> \o PadRight(r1, 4) \o <<"\n">>

\* "%-8s $%-4s, $%-4s\n"
mipsu_fmt_2r(m, r1, r2) ==
    PadRight(m, 8) \o <<" ", "$">> \o PadRight(r1, 4) \o <<",", " ", "$">>
        \o PadRight(r2, 4) \o <<"\n">>

\* "%-8s $%-4s, $%-4s, $%-4s\n"
mipsu_fmt_3r(m, r1, r2, r3) ==
    PadRight(m, 8) \o <<" ", "$">> \o PadRight(r1, 4) \o <<",", " ", "$">>
        \o PadRight(r2, 4) \o <<",", " ", "$">> \o PadRight(r3, 4) \o <<"\n">>

\* "%-8s $%-4s, $%-4s, 0x%02hhX\n"
mipsu_fmt_2r_hex2(m, r1, r2, v) ==
    PadRight(m, 8) \o <<" ", "$">> \o PadRight(r1, 4) \o <<",", " ", "$">>
        \o PadRight(r2, 4) \o <<",", " ", "0", "x">> \o HexN(BitsOf(v), 2) \o <<"\n">>

\* "%-8s $%-4s, %6hi\n"
mipsu_fmt_1r_dec6(m, r1, i) ==
    PadRight(m, 8) \o <<" ", "$">> \o PadRight(r1, 4) \o <<",", " ">>
        \o PadLeft(DecStr(i), 6) \o <<"\n">>

\* "%-8s $%-4s, $%-4s, %6hi\n"
mipsu_fmt_2r_dec6(m, r1, r2, i) ==
    PadRight(m, 8) \o <<" ", "$">> \o PadRight(r1, 4) \o <<",", " ", "$">>
        \o PadRight(r2, 4) \o <<",", " ">> \o PadLeft(DecStr(i), 6) \o <<"\n">>

\* "%-8s $%-4s, 0x%04hX\n"
mipsu_fmt_1r_hex4(m, r1, i) ==
    PadRight(m, 8) \o <<" ", "$">> \o PadRight(r1, 4) \o <<",", " ", "0", "x">>
        \o HexN(WordOfI16(i), 4) \o <<"\n">>

\* "%-8s $%-4s, $%-4s, 0x%04hX\n"
mipsu_fmt_2r_hex4(m, r1, r2, i) ==
    PadRight(m, 8) \o <<" ", "$">> \o PadRight(r1, 4) \o <<",", " ", "$">>
        \o PadRight(r2, 4) \o <<",", " ", "0", "x">> \o HexN(WordOfI16(i), 4) \o <<"\n">>

\* "%-8s $%-4s, 0x%04hX( $%s )\n"
mipsu_fmt_r_hex4_r(m, r1, i, r2) ==
    PadRight(m, 8) \o <<" ", "$">> \o PadRight(r1, 4) \o <<",", " ", "0", "x">>
        \o HexN(WordOfI16(i), 4) \o <<"(", " ", "$">> \o r2 \o <<" ", ")", "\n">>

(***************************************************************************)
(* Disassembly (lines 1086-1142).                                          *)
(***************************************************************************)
\* What a read past the end of a table yields: mipsu_reg_lut[i] for i > 31
\* and mipsu_fn_lut[i], mipsu_op_lut[i] for i > 63 are whatever follows the
\* table in memory.
JunkReads ==
    { [reg |-> [name |-> NULL, num |-> NULL], ent |-> ZeroEntry],
      [reg |-> [name |-> <<"j", "u", "n", "k">>, num |-> <<"9", "9">>],
       ent |-> [mnem |-> <<"j", "u", "n", "k">>, fmt |-> "ADDR", type |-> "J"]] }

\* mipsu_reg_lut[i], g what an out-of-range read yields (lines 1088-1090)
reg_entry(i, g) == IF i < mipsu_regc THEN mipsu_reg_lut(i) ELSE g.reg

\* mipsu_fn_lut[i] / mipsu_op_lut[i] (lines 1104-1107)
fn_entry(i, g) == IF i < 64 THEN mipsu_fn_lut(i) ELSE g.ent
op_entry(i, g) == IF i < 64 THEN mipsu_op_lut(i) ELSE g.ent

disasm_unknown_addr(x) == mipsu_fmt_hex8(<<".", "w", "o", "r", "d">>, f_addr(x))

\* line 1111: sprintf(b, mipsu_fmt_hex8, ".word", mipsu_encode(f))
disasm_unknown(x) == mipsu_fmt_hex8(<<".", "w", "o", "r", "d">>, mipsu_encode(x))

\* const char* rs = nreg ? rse.num : rse.name (lines 1098-1100)
reg_text_num(ent, cc) == ent.num

reg_text(ent, cc) == IF mipsu_get_flag(cc, "NREG") THEN ent.num ELSE ent.name

\* sprintf(b, fmt_1r_imm, ...) (lines 1095, 1129, 1131)
fmt_1r_imm(cc, m, r1, i) ==
    IF mipsu_get_flag(cc, "DIMM") THEN mipsu_fmt_1r_dec6(m, r1, i)
    ELSE mipsu_fmt_1r_hex4(m, r1, i)

\* sprintf(b, fmt_2r_imm, ...) (lines 1096, 1135, 1137)
fmt_2r_imm(cc, m, r1, r2, i) ==
    IF mipsu_get_flag(cc, "DIMM") THEN mipsu_fmt_2r_dec6(m, r1, r2, i)
    ELSE mipsu_fmt_2r_hex4(m, r1, r2, i)

\* switch (e.fmt) of mipsu_disasm (lines 1109-1141)
disasm_switch(x, e, rs, rt, rd, cc) ==
    CASE e.fmt = "UNKNOWN" -> disasm_unknown(x)
      [] e.fmt = "NONE" -> mipsu_fmt_none(e.mnem)
      [] e.fmt = "RS" -> mipsu_fmt_1r(e.mnem, rs)
      [] e.fmt = "RD" -> mipsu_fmt_1r(e.mnem, rd)
      [] e.fmt = "RS_RT" -> mipsu_fmt_2r(e.mnem, rs, rt)
      [] e.fmt = "RD_RT_RS" -> mipsu_fmt_3r(e.mnem, rd, rt, rs)
      [] e.fmt = "RD_RT_SH" -> mipsu_fmt_2r_hex2(e.mnem, rd, rt, f_sh(x))
      [] e.fmt = "RD_RS_RT" -> mipsu_fmt_3r(e.mnem, rd, rs, rt)
      [] e.fmt = "RS_IMM" -> fmt_1r_imm(cc, e.mnem, rs, f_imm(x))
      [] e.fmt = "RT_IMM" -> fmt_1r_imm(cc, e.mnem, rt, f_imm(x))
      [] e.fmt = "RT_IMM_RS" -> mipsu_fmt_r_hex4_r(e.mnem, rt, f_imm(x), rs)
      [] e.fmt = "RT_RS_IMM" -> fmt_2r_imm(cc, e.mnem, rt, rs, f_imm(x))
      [] e.fmt = "RS_RT_IMM" -> fmt_2r_imm(cc, e.mnem, rs, rt, f_imm(x))
      [] e.fmt = "ADDR" -> mipsu_fmt_hex8(e.mnem, f_addr(x))

\* mipsu_disasm(f, b, c): the text written to b.
mipsu_disasm(x, cc, g) ==
    disasm_switch(x,
                  IF x.type = "R" THEN fn_entry(f_fn(x), g) ELSE op_entry(x.op, g),
                  reg_text(reg_entry(f_rs(x), g), cc),
                  reg_text(reg_entry(f_rt(x), g), cc),
                  reg_text(reg_entry(f_rd(x), g), cc),
                  cc)

\* mipsu_dump_word(w, c): what is written to c.o (the raw bytes stand
\* for themselves).
mipsu_dump_word(x, cc) ==
    IF mipsu_get_flag(cc, "RAW") THEN <<x>>
    ELSE <<"0", "x">> \o HexN(x, 8) \o <<"\n">>

\* mipsu_dump_mnem(f, c): fputs of the disassembly.
mipsu_dump_mnem(y, cc, g) == mipsu_disasm(y, cc, g)

\* mipsu_dump_instr(w, f, c): fprintf(c.o, "0x%08X  %s", w, mipsu_chr_buff)
mipsu_dump_instr(x, y, cc, g) ==
    <<"0", "x">> \o HexN(x, 8) \o <<" ", " ">> \o mipsu_disasm(y, cc, g)

\* mipsu_dump_disasm(w, c): what is written to c.o, y being the field
\* mipsu_decode(w) assigned to the local f.
mipsu_dump_disasm(x, y, cc, g) ==
    IF mipsu_get_flag(cc, "QUIET") THEN mipsu_dump_mnem(y, cc, g)
    ELSE mipsu_dump_instr(x, y, cc, g)

\* mipsu_dump_asm(f, c): what is written to c.o.
mipsu_dump_asm(y, cc, g) ==
    IF mipsu_get_flag(cc, "QUIET") THEN mipsu_dump_word(mipsu_encode(y), cc)
    ELSE mipsu_dump_instr(mipsu_encode(y), y, cc, g)

(***************************************************************************)
(* Tokenizer (lines 522-533, 933-960).                                     *)
(***************************************************************************)
mipsu_ignore_no_paren(ch) == ch \in {" ", "\n", ","}

mipsu_ignore(ch) == ch \in {" ", "\n", ",", "(", ")"}

\* sizeof(mipsu_cp_buff)
mipsu_cp_len == 1024
mipsu_cp_last == mipsu_cp_len - 1

\* mipsu_cp_buff[mipsu_cp_last]: the buffer is static, hence zero at start,
\* and strncpy(mipsu_cp_buff, s, mipsu_cp_last) never writes its last byte.
cp_buff_last == NUL

\* strncpy(mipsu_cp_buff, s, mipsu_cp_last): the bytes of the buffer up to
\* the padding; every byte after them is NUL.
strncpy(str, cnt) == IF Len(str) > cnt THEN SubSeq(str, 1, cnt) ELSE str

RECURSIVE token_end(_, _)
\* while (!mipsu_ignore(mipsu_cp_buff[i]) && mipsu_cp_buff[i]) ++i;
token_end(buf, i) ==
    IF ~mipsu_ignore(Ch(buf, i)) /\ Ch(buf, i) # NUL THEN token_end(buf, i + 1) ELSE i

\* mipsu_cp_buff[i] = 0
put_nul(buf, i) == IF i < Len(buf) THEN [buf EXCEPT ![i + 1] = NUL] ELSE buf

\* if (mipsu_ignore(mipsu_cp_buff[i])) continue; repeated: the offset of
\* the first byte after i that mipsu_ignore does not skip (the NUL that
\* ends the text at the latest).
next_kept(buf, i) ==
    CHOOSE j \in (i + 1)..Len(buf) :
        /\ ~mipsu_ignore(Ch(buf, j))
        /\ \A k \in (i + 1)..(j - 1) : mipsu_ignore(Ch(buf, k))

RECURSIVE parse_asm_loop(_, _, _, _)
\* a[(*n)++] = mipsu_cp_buff + i; the token is skipped and ended by a
\* NUL at j; the loop goes on after it (lines 948-957).
take_token(buf, av, cnt, i, j) ==
    parse_asm_loop(put_nul(buf, j), [av EXCEPT ![cnt + 1] = i], cnt + 1, j + 1)

\* The for loop of mipsu_parse_asm (lines 943-957): a holds, for each of
\* the four pointers, its offset into mipsu_cp_buff, or -1 when null.
parse_asm_loop(buf, av, cnt, i) ==
    IF Ch(buf, i) = NUL THEN [r |-> "OK", a |-> av, n |-> cnt, buf |-> buf]
    ELSE IF mipsu_ignore(Ch(buf, i)) THEN parse_asm_loop(buf, av, cnt, next_kept(buf, i))
    ELSE IF cnt < 4 THEN take_token(buf, av, cnt, i, token_end(buf, i))
    ELSE [r |-> "INSTR_SIZE", a |-> av, n |-> cnt, buf |-> buf]

\* mipsu_parse_asm(s, a, &n): [r, a, n, buf] after the call.
mipsu_parse_asm(str, av) ==
    IF cp_buff_last # NUL
    THEN [r |-> "BUFF_OVERFLOW", a |-> av, n |-> 0, buf |-> strncpy(str, mipsu_cp_last)]
    ELSE parse_asm_loop(strncpy(str, mipsu_cp_last), av, 0, 0)

RECURSIVE c_string(_, _)
\* The C string at offset i of the buffer: the characters up to the
\* next NUL.
c_string(buf, i) ==
    IF Ch(buf, i) = NUL THEN <<>> ELSE <<Ch(buf, i)>> \o c_string(buf, i + 1)

\* a[k]: the string the k-th pointer points to.
token(buf, av, k) == c_string(buf, av[k + 1])

(***************************************************************************)
(* Operand parsers (lines 624-654, 793-931).                               *)
(***************************************************************************)
RECURSIVE parse_op_scan(_, _, _, _, _)
\* One of the two for loops of mipsu_parse_op: the first position from i
\* on whose mnemonic is s, or 0.
parse_op_scan(str, vec, cnt, i, fns) ==
    IF i > cnt THEN 0
    ELSE IF StrEq(str, (IF fns THEN mipsu_fn_lut(vec[i]) ELSE mipsu_op_lut(vec[i])).mnem)
    THEN i
    ELSE parse_op_scan(str, vec, cnt, i + 1, fns)

\* The outcome of the two loops, i and j the positions found in mipsu_fnv
\* and mipsu_opv (0 when none).
parse_op_found(i, j) ==
    IF i # 0 THEN [r |-> "OK", o |-> mipsu_fnv[i], e |-> mipsu_fn_lut(mipsu_fnv[i])]
    ELSE IF j # 0 THEN [r |-> "OK", o |-> mipsu_opv[j], e |-> mipsu_op_lut(mipsu_opv[j])]
    ELSE [r |-> "BAD_OP", o |-> mipsu_opv[mipsu_opc],
          e |-> mipsu_op_lut(mipsu_opv[mipsu_opc])]

\* mipsu_parse_op(s, &e, &o): [r, e, o]; on failure *o and *e are those
\* of the last entry scanned.
mipsu_parse_op(str) ==
    parse_op_found(parse_op_scan(str, mipsu_fnv, mipsu_fnc, 1, TRUE),
                   parse_op_scan(str, mipsu_opv, mipsu_opc, 1, FALSE))

RECURSIVE parse_reg_scan(_, _, _)
\* One of the two for loops of mipsu_parse_reg: the first index from i on
\* whose name (or number) is s, or mipsu_regc.
parse_reg_scan(str, i, names) ==
    IF i >= mipsu_regc THEN mipsu_regc
    ELSE IF StrEq(str, IF names THEN mipsu_reg_lut(i).name ELSE mipsu_reg_lut(i).num)
    THEN i
    ELSE parse_reg_scan(str, i + 1, names)

\* The outcome of the two loops, i and j the indices found by name and by
\* number (mipsu_regc when none).
parse_reg_found(i, j) ==
    IF i < mipsu_regc THEN [r |-> "OK", v |-> i]
    ELSE IF j < mipsu_regc THEN [r |-> "OK", v |-> j]
    ELSE [r |-> "BAD_REG", v |-> mipsu_regc]

\* if (prefixed) ++s;
after_prefix(str) == IF Ch(str, 0) = "$" THEN Skip(str, 1) ELSE str

\* mipsu_parse_reg(s, r, c): [r, v], v the value of *r after the call and
\* old its value before.
mipsu_parse_reg(str, old, cc) ==
    IF Ch(str, 0) # "$" /\ mipsu_get_flag(cc, "STRICT") THEN [r |-> "BAD_REG", v |-> old]
    ELSE parse_reg_found(parse_reg_scan(after_prefix(str), 0, TRUE),
                         parse_reg_scan(after_prefix(str), 0, FALSE))

\* if (!r) *i = w; return r; (lines 629-631)
imm_result(p, old) == [r |-> p.r, v |-> IF p.r = "OK" THEN I16(p.out) ELSE old]

\* mipsu_parse_imm(s, i): [r, v], v the value of *i after the call; gw is
\* the indeterminate content of the local w.
mipsu_parse_imm(str, old, gw) == imm_result(mipsu_parse_value(str, gw, FALSE, 16), old)

\* if (!r) *sh = w; return r; (lines 639-641)
sh_result(p, old) == [r |-> p.r, v |-> IF p.r = "OK" THEN U8(p.out) ELSE old]

\* mipsu_parse_sh(s, sh)
mipsu_parse_sh(str, old, gw) == sh_result(mipsu_parse_value(str, gw, TRUE, 5), old)

\* if (!r) *addr = w; if (w >= (1u << 26)) return FIELD_OVERFLOW; return r;
\* (lines 649-653): w is read even when mipsu_parse_word failed and left
\* it unassigned.
addr_result(p, old) ==
    [r |-> IF WordGe(p.out, 26) THEN "FIELD_OVERFLOW" ELSE p.r,
     v |-> IF p.r = "OK" THEN p.out ELSE old]

\* mipsu_parse_addr(s, addr)
mipsu_parse_addr(str, old, gw) == addr_result(mipsu_parse_word(str, gw), old)

\* The register members a parser stores through.
get_reg(x, m) == CASE m = "rs" -> f_rs(x) [] m = "rt" -> f_rt(x) [] m = "rd" -> f_rd(x)
set_reg(x, m, v) == CASE m = "rs" -> set_rs(x, v) [] m = "rt" -> set_rt(x, v)
                      [] m = "rd" -> set_rd(x, v)

\* The field and the result after a parser stored through a member.
reg_store(x, m, p) == [r |-> p.r, f |-> set_reg(x, m, p.v)]
imm_store(x, p) == [r |-> p.r, f |-> set_imm(x, p.v)]
sh_store(x, p) == [r |-> p.r, f |-> set_sh(x, p.v)]
addr_store(x, p) == [r |-> p.r, f |-> set_addr(x, p.v)]

\* r = mipsu_parse_reg(a[k], &f->m, c): [r, f]
reg_step(x, m, buf, av, k, cc) ==
    reg_store(x, m, mipsu_parse_reg(token(buf, av, k), get_reg(x, m), cc))

\* r = mipsu_parse_imm(a[k], &f->imm)
imm_step(x, buf, av, k, gw) == imm_store(x, mipsu_parse_imm(token(buf, av, k), f_imm(x), gw))

\* r = mipsu_parse_sh(a[k], &f->sh)
sh_step(x, buf, av, k, gw) == sh_store(x, mipsu_parse_sh(token(buf, av, k), f_sh(x), gw))

\* if (r) return r; r = mipsu_parse_reg(a[k], ...);
then_reg(p, m, buf, av, k, cc) == IF p.r # "OK" THEN p ELSE reg_step(p.f, m, buf, av, k, cc)

\* if (r) return r; r = mipsu_parse_imm(a[k], imm);
then_imm(p, buf, av, k, gw) == IF p.r # "OK" THEN p ELSE imm_step(p.f, buf, av, k, gw)

\* if (r) return r; r = mipsu_parse_sh(a[k], sh);
then_sh(p, buf, av, k, gw) == IF p.r # "OK" THEN p ELSE sh_step(p.f, buf, av, k, gw)

mipsu_parse_1r(cnt, buf, av, x, m1, cc) ==
    IF cnt # 2 THEN [r |-> "BAD_OP_FMT", f |-> x]
    ELSE reg_step(x, m1, buf, av, 1, cc)

mipsu_parse_2r(cnt, buf, av, x, m1, m2, cc) ==
    IF cnt # 3 THEN [r |-> "BAD_OP_FMT", f |-> x]
    ELSE then_reg(reg_step(x, m1, buf, av, 1, cc), m2, buf, av, 2, cc)

mipsu_parse_3r(cnt, buf, av, x, m1, m2, m3, cc) ==
    IF cnt # 4 THEN [r |-> "BAD_OP_FMT", f |-> x]
    ELSE then_reg(then_reg(reg_step(x, m1, buf, av, 1, cc), m2, buf, av, 2, cc),
                  m3, buf, av, 3, cc)

mipsu_parse_2r_sh(cnt, buf, av, x, m1, m2, cc, gw) ==
    IF cnt # 4 THEN [r |-> "BAD_OP_FMT", f |-> x]
    ELSE then_sh(then_reg(reg_step(x, m1, buf, av, 1, cc), m2, buf, av, 2, cc),
                 buf, av, 3, gw)

mipsu_parse_1r_imm(cnt, buf, av, x, m1, cc, gw) ==
    IF cnt # 3 THEN [r |-> "BAD_OP_FMT", f |-> x]
    ELSE then_imm(reg_step(x, m1, buf, av, 1, cc), buf, av, 2, gw)

mipsu_parse_2r_imm(cnt, buf, av, x, m1, m2, cc, gw) ==
    IF cnt # 4 THEN [r |-> "BAD_OP_FMT", f |-> x]
    ELSE then_imm(then_reg(reg_step(x, m1, buf, av, 1, cc), m2, buf, av, 2, cc),
                  buf, av, 3, gw)

mipsu_parse_r_imm_r(cnt, buf, av, x, m1, m2, cc, gw) ==
    IF cnt # 4 THEN [r |-> "BAD_OP_FMT", f |-> x]
    ELSE then_reg(then_imm(reg_step(x, m1, buf, av, 1, cc), buf, av, 2, gw),
                  m2, buf, av, 3, cc)

(***************************************************************************)
(* Assembly (lines 1146-1197).                                             *)
(***************************************************************************)
\* f->type = e.type; if (f->type == MIPSU_TYPE_R) { f->fn = f->op;
\* f->op = 0; } (lines 1156-1161), x being f after mipsu_parse_op
asm_type(x, e) ==
    IF e.type = "R" THEN [set_fn(x, x.op) EXCEPT !.type = "R", !.op = 0]
    ELSE [x EXCEPT !.type = e.type]

\* switch (e.fmt) of mipsu_asm (lines 1163-1196)
asm_switch(e, x, cnt, buf, av, cc, gw) ==
    CASE e.fmt = "UNKNOWN" -> [r |-> "BAD_OP", f |-> x]
      [] e.fmt = "NONE" -> [r |-> "OK", f |-> x]
      [] e.fmt = "RS" -> mipsu_parse_1r(cnt, buf, av, x, "rs", cc)
      [] e.fmt = "RD" -> mipsu_parse_1r(cnt, buf, av, x, "rd", cc)
      [] e.fmt = "RS_RT" -> mipsu_parse_2r(cnt, buf, av, x, "rs", "rt", cc)
      [] e.fmt = "RD_RS_RT" -> mipsu_parse_3r(cnt, buf, av, x, "rd", "rs", "rt", cc)
      [] e.fmt = "RD_RT_RS" -> mipsu_parse_3r(cnt, buf, av, x, "rd", "rt", "rs", cc)
      [] e.fmt = "RD_RT_SH" -> mipsu_parse_2r_sh(cnt, buf, av, x, "rd", "rt", cc, gw)
      [] e.fmt = "RS_IMM" -> mipsu_parse_1r_imm(cnt, buf, av, x, "rs", cc, gw)
      [] e.fmt = "RT_IMM" -> mipsu_parse_1r_imm(cnt, buf, av, x, "rt", cc, gw)
      [] e.fmt = "RT_IMM_RS" -> mipsu_parse_r_imm_r(cnt, buf, av, x, "rt", "rs", cc, gw)
      [] e.fmt = "RT_RS_IMM" -> mipsu_parse_2r_imm(cnt, buf, av, x, "rt", "rs", cc, gw)
      [] e.fmt = "RS_RT_IMM" -> mipsu_parse_2r_imm(cnt, buf, av, x, "rs", "rt", cc, gw)
      [] e.fmt = "ADDR" ->
           IF cnt # 2 THEN [r |-> "BAD_OP_FMT", f |-> x]
           ELSE addr_store(x, mipsu_parse_addr(token(buf, av, 1), f_addr(x), gw))

\* mipsu_asm after r = mipsu_parse_op(a[0], &e, &f->op) returned po
\* (lines 1154-1196)
asm_after_op(po, cnt, buf, av, cc, gw) ==
    IF po.r # "OK" THEN [r |-> po.r, f |-> [ZeroField EXCEPT !.op = po.o]]
    ELSE asm_switch(po.e, asm_type([ZeroField EXCEPT !.op = po.o], po.e),
                    cnt, buf, av, cc, gw)

\* mipsu_asm(n, a, f, c): [r, f] after the call.  strcmp in
\* mipsu_parse_op dereferences a[0]: a null a[0] is a segmentation
\* fault, reported as the result "SIGSEGV" with f as memset left it.
mipsu_asm(cnt, buf, av, cc, gw) ==
    IF av[1] = -1 THEN [r |-> "SIGSEGV", f |-> ZeroField]
    ELSE asm_after_op(mipsu_parse_op(token(buf, av, 0)), cnt, buf, av, cc, gw)

(***************************************************************************)
(* The mnemonic lookup applied to a first token: the beginning of          *)
(* mipsu_asm (lines 1151-1161).                                            *)
(***************************************************************************)
\* The mnemonics of the entries mipsu_fnv and mipsu_opv list.
Mnemonics ==
    {mipsu_fn_lut(mipsu_fnv[i]).mnem : i \in 1..mipsu_fnc} \cup
    {mipsu_op_lut(mipsu_opv[i]).mnem : i \in 1..mipsu_opc}

\* First tokens: the mnemonics, each one cut short by a character and
\* lengthened by one, the empty string and a word of no table.
OpTokens ==
    Mnemonics \cup {SubSeq(m, 1, Len(m) - 1) : m \in Mnemonics}
              \cup {Append(m, ch) : m \in Mnemonics, ch \in {"u", "x"}}
              \cup {<<>>, <<"n", "o", "p">>}

InitOp ==
    /\ pc = "op"
    /\ s \in OpTokens
    /\ u = FALSE /\ b = 0 /\ out = {} /\ r = "OK"
    /\ w = {} /\ w0 = {} /\ f0 = ZeroField
    /\ f \in JunkFields
    /\ TextIdle
    /\ FileIdle

\* The field and the result after mipsu_parse_op returned po
\* (lines 1154-1161).
op_stored(po) ==
    [r |-> po.r,
     f |-> IF po.r = "OK" THEN asm_type([ZeroField EXCEPT !.op = po.o], po.e)
           ELSE [ZeroField EXCEPT !.op = po.o]]

\* memset(f, 0, sizeof(mipsu_field_t)); r = mipsu_parse_op(s, &e, &f->op);
\* if (r) return r; f->type = e.type; ... (lines 1151-1161)
ParseOp ==
    /\ pc = "op"
    /\ r' = op_stored(mipsu_parse_op(s)).r
    /\ f' = op_stored(mipsu_parse_op(s)).f
    /\ pc' = "op_done"
    /\ UNCHANGED <<w, w0, f0, litVars, textVars, fileVars>>

NextOp == ParseOp

SpecOp == InitOp /\ [][NextOp]_vars

\* The slots of the two tables whose entry has an operand format, i.e.
\* the entries mipsu_disasm prints a mnemonic for.
FnSlots == {i \in 0..63 : mipsu_fn_lut(i).fmt # "UNKNOWN"}
OpSlots == {i \in 0..63 : mipsu_op_lut(i).fmt # "UNKNOWN"}

\* C18: the lookup takes the exact match of the first token in the
\* function table, then in the opcode table: a mnemonic mipsu_disasm can
\* print resolves to its own slot (an R entry: fn = its index and
\* op = 0; any other entry: op = its index), no mnemonic occurs in two
\* slots, and any other first token, the empty mnemonic of opcode slot 0
\* included, yields BAD_OP.
C18_Lookup ==
    /\ \A i, j \in FnSlots : mipsu_fn_lut(i).mnem = mipsu_fn_lut(j).mnem => i = j
    /\ \A i, j \in OpSlots : mipsu_op_lut(i).mnem = mipsu_op_lut(j).mnem => i = j
    /\ \A i \in FnSlots, j \in OpSlots : mipsu_fn_lut(i).mnem # mipsu_op_lut(j).mnem
    /\ pc = "op_done" =>
          /\ \A i \in FnSlots :
                s = mipsu_fn_lut(i).mnem =>
                    r = "OK" /\ f.type = "R" /\ f.op = 0 /\ f_fn(f) = i
          /\ \A i \in OpSlots \ {0} :
                s = mipsu_op_lut(i).mnem =>
                    r = "OK" /\ f.type = mipsu_op_lut(i).type /\ f.type # "R" /\ f.op = i
          /\ (s = <<>> \/ ((\A i \in FnSlots : s # mipsu_fn_lut(i).mnem)
                            /\ (\A i \in OpSlots : s # mipsu_op_lut(i).mnem))) =>
                r = "BAD_OP"

\* 'sltu', the last entry of the function table, has been looked up.
C18_Witness ==
    /\ pc = "op_done"
    /\ s = <<"s", "l", "t", "u">>
    /\ r = "OK"
    /\ f = [type |-> "R", op |-> 0, un |-> <<0, 0, 0, 0, 43>>]

(***************************************************************************)
(* The disassembler and the assembler applied to their inputs.             *)
(*   word flow:  w0 --mipsu_dump_disasm--> mipsu_chr_buff, o               *)
(*                  --mipsu_parse_asm--> a, n --mipsu_asm--> f             *)
(*                  --mipsu_disasm--> mipsu_chr_buff                       *)
(*   field flow: f0 --mipsu_disasm--> mipsu_chr_buff                       *)
(*                  --mipsu_parse_asm--> a, n --mipsu_asm--> f             *)
(* Only the word flow writes to c.o.                                       *)
(***************************************************************************)
\* Register operands of the inputs: rs = k, rt = k + 11, rd = k + 22,
\* sh = k + 5 (mod 32) for k in 0..MaxTuple.
MaxTuple == 31

ImmList == <<-32768, -1, 0, 1, 32767, 4660, 22136, -25924, -8464>>

\* The immediate paired with op vo and operands k: every op meets every
\* immediate of ImmList.
ImmOf(vo, k) == ImmList[((vo + k) % Len(ImmList)) + 1]

\* 0, 1, 0x3FFFFFF, 0x1234567
TextAddrs == {BitsOf(0), BitsOf(1), BitsOf(mipsu_26bit_mask), BitsOf(19088743)}

RWord(vs, vt, vd, vh, vn) ==
    Or(Or(Or(Or(Shl(BitsOf(vs), 21), Shl(BitsOf(vt), 16)), Shl(BitsOf(vd), 11)),
          Shl(BitsOf(vh), 6)), BitsOf(vn))

IWord(vo, vs, vt, vi) ==
    Or(Or(Or(Shl(BitsOf(vo), 26), Shl(BitsOf(vs), 21)), Shl(BitsOf(vt), 16)),
       And(WordOfI16(vi), BitsOf(mipsu_16bit_mask)))

JWord(vo, va) == Or(Shl(BitsOf(vo), 26), va)

\* Every fn with op = 0 and every op, known or not.
TextWords ==
    { RWord(k % 32, (k + 11) % 32, (k + 22) % 32, (k + 5) % 32, vn) :
        k \in 0..MaxTuple, vn \in 0..63 }
    \cup
    { IWord(vo, k % 32, (k + 11) % 32, ImmOf(vo, k)) :
        k \in 0..MaxTuple, vo \in (1..63) \ {2, 3} }
    \cup
    { JWord(vo, va) : vo \in {2, 3}, va \in TextAddrs }
    \cup {ExampleWord}

\* The display options: numeric registers, decimal immediates, and quiet.
TextOptions == SUBSET {"NREG", "DIMM"} \cup {{"QUIET"}}

\* The table entry mipsu_disasm selects for a field (lines 1104-1107).
EntryOf(x) == IF x.type = "R" THEN mipsu_fn_lut(f_fn(x) % 64) ELSE mipsu_op_lut(x.op % 64)

\* The sub-fields of its form that the operand format of a field prints.
Printed(x) ==
    LET fmt == EntryOf(x).fmt
    IN CASE fmt = "RS" -> {"rs"}
         [] fmt = "RD" -> {"rd"}
         [] fmt = "RS_RT" -> {"rs", "rt"}
         [] fmt \in {"RD_RS_RT", "RD_RT_RS"} -> {"rs", "rt", "rd"}
         [] fmt = "RD_RT_SH" -> {"rt", "rd", "sh"}
         [] fmt = "RS_IMM" -> {"rs", "imm"}
         [] fmt = "RT_IMM" -> {"rt", "imm"}
         [] fmt \in {"RT_IMM_RS", "RT_RS_IMM", "RS_RT_IMM"} -> {"rs", "rt", "imm"}
         [] fmt = "ADDR" -> {"addr"}
         [] OTHER -> {}

\* The sub-fields of the form of a field.
SubFields(x) == CASE x.type = "R" -> {"rs", "rt", "rd", "sh"}
                  [] x.type = "I" -> {"rs", "rt", "imm"}
                  [] x.type = "J" -> {"addr"}

SubField(x, m) == CASE m = "rs" -> f_rs(x) [] m = "rt" -> f_rt(x) [] m = "rd" -> f_rd(x)
                    [] m = "sh" -> f_sh(x) [] m = "imm" -> f_imm(x)
                    [] m = "addr" -> ValOf(f_addr(x) \cap (0..25))

\* Every sub-field the format does not print is zero.
UnprintedZero(x) == \A m \in SubFields(x) \ Printed(x) : SubField(x, m) = 0

\* The field with the sub-fields the format does not print set to zero.
Clean(x) ==
    LET p == Printed(x)
        x1 == IF x.type # "J" /\ "rs" \notin p THEN set_rs(x, 0) ELSE x
        x2 == IF x.type # "J" /\ "rt" \notin p THEN set_rt(x1, 0) ELSE x1
        x3 == IF x.type = "R" /\ "rd" \notin p THEN set_rd(x2, 0) ELSE x2
    IN IF x.type = "R" /\ "sh" \notin p THEN set_sh(x3, 0) ELSE x3

\* A field for every table entry and operands k.
EntryFields ==
    { [type |-> "R", op |-> 0,
       un |-> <<k % 32, (k + 11) % 32, (k + 22) % 32, (k + 5) % 32, mipsu_fnv[i]>>] :
        k \in 0..MaxTuple, i \in 1..mipsu_fnc }
    \cup
    { set_imm([type |-> "I", op |-> mipsu_opv[i], un |-> <<k % 32, (k + 11) % 32, 0, 0, 0>>],
              ImmOf(mipsu_opv[i], k)) :
        k \in 0..MaxTuple, i \in {j \in 1..mipsu_opc : mipsu_opv[j] \notin {2, 3}} }
    \cup
    { set_addr([type |-> "J", op |-> vo, un |-> <<0, 0, 0, 0, 0>>], va) :
        vo \in {2, 3}, va \in TextAddrs }

\* Fields whose register members index past the register table, and an
\* I-form field that selects the empty mnemonic of mipsu_op_lut[0].
OddFields ==
    { [type |-> "R", op |-> 0, un |-> <<32, 1, 2, 0, 32>>],
      [type |-> "R", op |-> 0, un |-> <<1, 2, 3, 0, 64>>],
      [type |-> "I", op |-> 64, un |-> <<1, 2, 3, 0, 0>>],
      [type |-> "I", op |-> 0, un |-> <<1, 2, 3, 0, 0>>] }

TextFields == EntryFields \cup {Clean(x) : x \in EntryFields} \cup OddFields

InitText ==
    /\ LitIdle
    /\ FileIdle
    /\ mipsu_chr_buff = <<>>
    /\ line = <<>>
    /\ mipsu_cp_buff = <<>>
    /\ a = NoTokens
    /\ n = 0
    /\ o = <<>>
    /\ \/ /\ pc = "word"
          /\ w0 \in TextWords
          /\ w = w0
          /\ c \in TextOptions
          /\ f0 = ZeroField
          /\ f = ZeroField
       \/ /\ pc = "field"
          /\ f0 \in TextFields
          /\ f = f0
          /\ c = {}
          /\ w0 = {}
          /\ w = {}

\* mipsu_dump_disasm(w, c)
DumpDisasm ==
    /\ pc = "word"
    /\ \E gf \in JunkFields, g \in JunkReads :
          /\ f' = mipsu_decode(w, gf)
          /\ mipsu_chr_buff' = mipsu_disasm(f', c, g)
          /\ o' = Append(o, mipsu_dump_disasm(w, f', c, g))
    /\ pc' = "text"
    /\ UNCHANGED <<w, w0, f0, litVars, r, c, line, mipsu_cp_buff, a, n, fileVars>>

\* mipsu_disasm(f, mipsu_chr_buff, c)
Disasm ==
    /\ pc = "field"
    /\ \E g \in JunkReads : mipsu_chr_buff' = mipsu_disasm(f, c, g)
    /\ pc' = "text"
    /\ UNCHANGED <<codecVars, litVars, r, c, line, mipsu_cp_buff, a, n, o, fileVars>>

\* The tokenizer's result stored: r, a, n and mipsu_cp_buff.
Tokenized(res) ==
    /\ r' = res.r
    /\ a' = res.a
    /\ n' = res.n
    /\ mipsu_cp_buff' = res.buf

\* r = mipsu_parse_asm(mipsu_chr_buff, a, &n)
ParseAsm ==
    /\ pc = "text"
    /\ line' = mipsu_chr_buff
    /\ Tokenized(mipsu_parse_asm(mipsu_chr_buff, a))
    /\ pc' = "tokens"
    /\ UNCHANGED <<codecVars, litVars, c, mipsu_chr_buff, o, fileVars>>

\* The assembler's result stored: r and f.
Assembled(res) == r' = res.r /\ f' = res.f

\* r = mipsu_asm(n, a, &f, c)
Asm ==
    /\ pc = "tokens"
    /\ r = "OK"
    /\ \E gw \in JunkWords : Assembled(mipsu_asm(n, mipsu_cp_buff, a, c, gw))
    /\ pc' = IF r' = "SIGSEGV" THEN "crashed" ELSE "assembled"
    /\ UNCHANGED <<w, w0, f0, litVars, textVars, fileVars>>

\* mipsu_disasm(f, mipsu_chr_buff, c) of the assembled field
Redisasm ==
    /\ pc = "assembled"
    /\ r = "OK"
    /\ \E g \in JunkReads : mipsu_chr_buff' = mipsu_disasm(f, c, g)
    /\ pc' = "done"
    /\ UNCHANGED <<codecVars, litVars, r, c, line, mipsu_cp_buff, a, n, o, fileVars>>

NextText == DumpDisasm \/ Disasm \/ ParseAsm \/ Asm \/ Redisasm

SpecText == InitText /\ [][NextText]_vars

(***************************************************************************)
(* Claims about disassembly and assembly.                                  *)
(***************************************************************************)
\* The text came from a word (mipsu_dump_disasm wrote a line to c.o).
WordFlow == o # <<>>

\* The text came from a field.
FieldFlow == o = <<>>

SameForm(x, y) ==
    /\ x.type = y.type
    /\ x.op = y.op
    /\ CASE y.type = "R" -> /\ f_rs(x) = f_rs(y) /\ f_rt(x) = f_rt(y)
                            /\ f_rd(x) = f_rd(y) /\ f_sh(x) = f_sh(y)
                            /\ f_fn(x) = f_fn(y)
         [] y.type = "I" -> /\ f_rs(x) = f_rs(y) /\ f_rt(x) = f_rt(y)
                            /\ f_imm(x) = f_imm(y)
         [] y.type = "J" -> f_addr(x) = f_addr(y)

\* A field matching a table entry with a defined operand format.
Matches(x) ==
    /\ WellFormed(x)
    /\ EntryOf(x).type = x.type
    /\ EntryOf(x).fmt \notin {"NONE", "UNKNOWN"}

\* C3: for every table entry with an operand format other than NONE and
\* UNKNOWN and every field matching it, whatever the values of the
\* sub-fields of its form (those the format does not print included),
\* tokenizing and assembling the text of disassemble(f) under default
\* options returns Ok with a field equal to f.
C3_RenderParse ==
    (FieldFlow /\ Matches(f0)) =>
        /\ pc = "tokens" => r = "OK"
        /\ pc = "assembled" => r = "OK" /\ SameForm(f, f0)

\* C3, amended: the same for every matching field whose sub-fields not
\* printed by the operand format are zero.
C3_RenderParsePrinted ==
    (FieldFlow /\ Matches(f0) /\ UnprintedZero(f0)) =>
        /\ pc = "tokens" => r = "OK"
        /\ pc = "assembled" => r = "OK" /\ SameForm(f, f0)

C3_Witness ==
    /\ FieldFlow
    /\ pc = "assembled"
    /\ Matches(f0)
    /\ UnprintedZero(f0)
    /\ EntryOf(f0).fmt = "RT_IMM_RS"
    /\ f_imm(f0) < 0
    /\ f_rs(f0) = 31
    /\ r = "OK"
    /\ SameForm(f, f0)

\* w has a table entry: its fn is listed in mipsu_fnv when op = 0, its op
\* is listed in mipsu_opv otherwise.
Known(x) ==
    IF Slice(x, 31, 26) = 0
    THEN \E i \in 1..mipsu_fnc : mipsu_fnv[i] = Slice(x, 5, 0)
    ELSE \E i \in 1..mipsu_opc : mipsu_opv[i] = Slice(x, 31, 26)

\* C4: for every word w that decodes to a known instruction and every
\* combination of the numeric-registers and decimal-immediates options,
\* the line t = disassemble(decode(w)) is accepted by the assembler and
\* disassembling the assembled field under the same options yields t.
C4_Idempotent ==
    (WordFlow /\ Known(w0)) =>
        /\ pc \in {"tokens", "assembled"} => r = "OK"
        /\ pc # "crashed"
        /\ pc = "done" => mipsu_chr_buff = line

\* ".word", padded to eight columns, a space and "0x"
WordPrefix == <<".", "w", "o", "r", "d", " ", " ", " ", " ", "0", "x">>

\* The text is one line: a single newline, the last character.
OneLine(str) ==
    /\ str # <<>>
    /\ \A i \in 1..Len(str) : str[i] = "\n" <=> i = Len(str)

\* The text is the .word fallback with the eight hex digits of x.
IsRawWord(str, x) ==
    /\ Len(str) = Len(WordPrefix) + 9
    /\ SubSeq(str, 1, Len(WordPrefix)) = WordPrefix
    /\ \A i \in 1..8 :
          LET ch == str[Len(WordPrefix) + i]
          IN /\ ch \in HexDigitSet
             /\ DigitVal(ch) = Slice(x, 35 - 4 * i, 32 - 4 * i)
    /\ str[Len(str)] = "\n"

\* C5: disassembly writes exactly one line for every 32-bit word and
\* returns no error; when the word's op (its fn when op = 0) has no table
\* entry the line is the .word fallback carrying w as 8 hex digits.
C5_AlwaysOneLine ==
    (WordFlow /\ pc = "text") =>
        /\ r = "OK"
        /\ Len(o) = 1
        /\ OneLine(o[1])
        /\ OneLine(mipsu_chr_buff)
        /\ SubSeq(o[1], Len(o[1]) - Len(mipsu_chr_buff) + 1, Len(o[1])) = mipsu_chr_buff
        /\ ~Known(w0) => IsRawWord(mipsu_chr_buff, w0)

C5_Witness ==
    /\ WordFlow
    /\ pc = "text"
    /\ Slice(w0, 31, 26) = 16
    /\ ~Known(w0)
    /\ IsRawWord(mipsu_chr_buff, w0)
    /\ OneLine(o[1])

\* sub occurs in text.
Contains(text, sub) ==
    \E i \in 0..(Len(text) - Len(sub)) : SubSeq(text, i + 1, i + Len(sub)) = sub

\* The text of the word 0x00221820 has been written under options that set
\* neither NREG nor DIMM.
ExampleRendered ==
    /\ WordFlow
    /\ pc = "text"
    /\ w0 = ExampleWord
    /\ c \cap {"NREG", "DIMM"} = {}

\* C13: under default options the text of the field decoded from
\* 0x00221820 is 'add' left-justified in 8 columns followed by the
\* operands rd, rs, rt written as "$3  , $1  , $2".
C13_Example ==
    ExampleRendered =>
        /\ SubSeq(mipsu_chr_buff, 1, 8) = <<"a", "d", "d", " ", " ", " ", " ", " ">>
        /\ Contains(mipsu_chr_buff, <<"$", "3", " ", " ", ",", " ", "$", "1", " ", " ", ",", " ", "$", "2">>)

\* C13, amended: the text is 'add' left-justified in 8 columns, a space,
\* and the operands rd, rs, rt, each a '$' and the register's symbolic
\* name left-justified in 4 columns, separated by ", ":
\* "add      $v1  , $at  , $v0  "; with NREG set the operands are the
\* register numbers, "add      $3   , $1   , $2   ".
C13_ExampleNames ==
    (WordFlow /\ pc = "text" /\ w0 = ExampleWord) =>
        mipsu_chr_buff = IF "NREG" \in c
                         THEN <<"a", "d", "d", " ", " ", " ", " ", " ", " ", "$", "3", " ", " ", " ", ",", " ", "$", "1", " ", " ", " ", ",", " ", "$", "2", " ", " ", " ", "\n">>
                         ELSE <<"a", "d", "d", " ", " ", " ", " ", " ", " ", "$", "v", "1", " ", " ", ",", " ", "$", "a", "t", " ", " ", ",", " ", "$", "v", "0", " ", " ", "\n">>

C13_Witness ==
    /\ ExampleRendered
    /\ f = [type |-> "R", op |-> 0, un |-> <<1, 2, 3, 0, 32>>]
    /\ Contains(mipsu_chr_buff, <<"$", "v", "1", " ", " ", ",", " ", "$", "a", "t", " ", " ", ",", " ", "$", "v", "0">>)

(***************************************************************************)
(* Raw field encoding (lines 656-791, 964-1013, 1201-1204, 1228-1236,      *)
(* 1270-1281).                                                             *)
(***************************************************************************)
\* The switch on s[0] of mipsu_parse_type (lines 667-682).
type_of(ch) ==
    CASE ch \in {"R", "r"} -> "R"
      [] ch \in {"I", "i"} -> "I"
      [] ch \in {"J", "j"} -> "J"
      [] OTHER -> "none"

\* mipsu_parse_type after if (prefixed) ++s; (lines 667-684)
type_after_prefix(str) ==
    IF type_of(Ch(str, 0)) = "none" THEN [r |-> "BAD_OP_TYPE", t |-> "none"]
    ELSE [r |-> IF Ch(str, 1) # NUL THEN "BAD_OP_TYPE" ELSE "OK", t |-> type_of(Ch(str, 0))]

\* mipsu_parse_type(s, out, c): [r, t]
mipsu_parse_type(str, cc) ==
    IF Len(str) > 2 THEN [r |-> "BAD_OP_TYPE", t |-> "none"]
    ELSE IF Ch(str, 0) # "-" /\ mipsu_get_flag(cc, "STRICT")
    THEN [r |-> "BAD_OP_TYPE", t |-> "none"]
    ELSE type_after_prefix(IF Ch(str, 0) = "-" THEN Skip(str, 1) ELSE str)

\* mipsu_parse_field_hlpr(s, msg, f, n, c): [r, v], v the byte stored by
\* *f = w, gw the indeterminate content of the local w, which
\* mipsu_parse_value leaves alone when it fails.
mipsu_parse_field_hlpr(str, bits, gw) ==
    [r |-> mipsu_parse_value(str, gw, TRUE, bits).r,
     v |-> U8(mipsu_parse_value(str, gw, TRUE, bits).out)]

\* The width mipsu_parse_field_hlpr is given for a member.
member_width(m) == IF m \in {"op", "fn"} THEN 6 ELSE 5

\* The member a helper call stores through.
store_member(x, m, v) ==
    CASE m = "op" -> [x EXCEPT !.op = v]
      [] m = "fn" -> set_fn(x, v)
      [] m = "sh" -> set_sh(x, v)
      [] OTHER -> set_reg(x, m, v)

RECURSIVE field_members(_, _, _, _, _)
\* r = mipsu_parse_field_hlpr(argv[i], ..., &out->m, ...); if (r) return r;
member_parsed(x, argv, ms, i, gw, p) ==
    IF p.r # "OK" THEN [r |-> p.r, f |-> store_member(x, ms[i], p.v)]
    ELSE field_members(store_member(x, ms[i], p.v), argv, ms, i + 1, gw)

\* The helper calls of a field parser for the members ms, argv[i] being
\* parsed into ms[i]: [r, f].
field_members(x, argv, ms, i, gw) ==
    IF i > Len(ms) THEN [r |-> "OK", f |-> x]
    ELSE member_parsed(x, argv, ms, i, gw,
                       mipsu_parse_field_hlpr(argv[i + 1], member_width(ms[i]), gw))

\* mipsu_parse_r_field(argc, argv, out, c): [r, f]
mipsu_parse_r_field(argv, x, gw) ==
    IF Len(argv) < 6 THEN [r |-> "MISSING_ARGS", f |-> x]
    ELSE IF Len(argv) > 6 THEN [r |-> "TOO_MANY_ARGS", f |-> x]
    ELSE field_members([x EXCEPT !.type = "R", !.op = 0], argv,
                       <<"rs", "rt", "rd", "sh", "fn">>, 1, gw)

\* r = mipsu_parse_imm(argv[4], &out->imm); (lines 746-749)
i_field_imm(p, argv, gw) ==
    IF p.r # "OK" THEN p
    ELSE imm_store(p.f, mipsu_parse_imm(argv[5], f_imm(p.f), gw))

\* mipsu_parse_i_field(argc, argv, out, c): [r, f]
mipsu_parse_i_field(argv, x, gw) ==
    IF Len(argv) < 5 THEN [r |-> "MISSING_ARGS", f |-> x]
    ELSE IF Len(argv) > 5 THEN [r |-> "TOO_MANY_ARGS", f |-> x]
    ELSE i_field_imm(field_members([x EXCEPT !.type = "I"], argv, <<"op", "rs", "rt">>, 1, gw),
                     argv, gw)

\* out->type = MIPSU_TYPE_I; of mipsu_parse_j_field (line 761)
j_field_type == "I"

\* r = mipsu_parse_value(argv[2], &w, false, 26); out->rs = w;
\* (lines 766-769)
j_field_addr(p, argv, gw) ==
    IF p.r # "OK" THEN p
    ELSE [r |-> mipsu_parse_value(argv[3], gw, FALSE, 26).r,
          f |-> set_rs(p.f, U8(mipsu_parse_value(argv[3], gw, FALSE, 26).out))]

\* mipsu_parse_j_field(argc, argv, out, c): [r, f]
mipsu_parse_j_field(argv, x, gw) ==
    IF Len(argv) < 3 THEN [r |-> "MISSING_ARGS", f |-> x]
    ELSE IF Len(argv) > 3 THEN [r |-> "TOO_MANY_ARGS", f |-> x]
    ELSE j_field_addr(field_members([x EXCEPT !.type = j_field_type], argv, <<"op">>, 1, gw),
                      argv, gw)

\* switch (t) of mipsu_parse_field (lines 783-790)
field_switch(pt, argv, x, gw) ==
    IF pt.r # "OK" THEN [r |-> pt.r, f |-> x]
    ELSE CASE pt.t = "R" -> mipsu_parse_r_field(argv, x, gw)
           [] pt.t = "I" -> mipsu_parse_i_field(argv, x, gw)
           [] pt.t = "J" -> mipsu_parse_j_field(argv, x, gw)

\* mipsu_parse_field(argc, argv, out, c): [r, f], x the content of *out
\* before the call.
mipsu_parse_field(argv, x, cc, gw) ==
    IF Len(argv) < 1 THEN [r |-> "MISSING_ARGS", f |-> x]
    ELSE field_switch(mipsu_parse_type(argv[1], cc), argv, x, gw)

RECURSIVE DecLimbs(_, _)
\* The decimal numeral of hi * 2^16 + lo.
DecLimbs(hi, lo) ==
    IF hi = 0 THEN DecNat(lo)
    ELSE Append(DecLimbs(hi \div 10, ((hi % 10) * 65536 + lo) \div 10),
                DecDigits[(((hi % 10) * 65536 + lo) % 10) + 1])

\* The unsigned decimal conversion of a word.
DecWord(x) == DecLimbs(ValOf(Shr(x, 16)), ValOf(x \cap (0..15)))

\* fn ? fn : "?" (lines 1000, 1003, 1009)
mnem_text(m) == IF m = NULL THEN <<"?">> ELSE m

\* The header mipsu_fmt_field writes unless QUIET is set (lines 987-993).
fmt_field_head(x, y, cc, op) ==
    IF mipsu_get_flag(cc, "QUIET") THEN <<>>
    ELSE <<"h", "e", "x", ":", " ", " ", " ", "0", "x">> \o HexN(x, 8) \o <<"\n">>
         \o <<"t", "y", "p", "e", ":", " ", " ">> \o <<y.type>> \o (IF op = NULL THEN <<"?">> ELSE <<>>) \o <<"\n">>
         \o <<"-", "-", "-", "-", "-", "-", "-", "-", "\n">>

\* One line of the body: a label, a byte in hexadecimal and a text in
\* parentheses.
fmt_field_byte(label, v, text) ==
    label \o <<"0", "x">> \o HexN(BitsOf(v), 2) \o text \o <<")", "\n">>

\* switch (f.type) of mipsu_fmt_field (lines 995-1013)
fmt_field_body(y, rs, rt, rd, fn, op) ==
    CASE y.type = "R" ->
           fmt_field_byte(<<"r", "s", ":", " ", " ">>, f_rs(y), <<" ", " ", "(", "$">> \o rs)
           \o fmt_field_byte(<<"r", "t", ":", " ", " ">>, f_rt(y), <<" ", " ", "(", "$">> \o rt)
           \o fmt_field_byte(<<"r", "d", ":", " ", " ">>, f_rd(y), <<" ", " ", "(", "$">> \o rd)
           \o fmt_field_byte(<<"s", "h", ":", " ", " ">>, f_sh(y), <<" ", " ", "(">> \o DecNat(f_sh(y)))
           \o fmt_field_byte(<<"f", "n", ":", " ", " ">>, f_fn(y), <<" ", " ", "(">> \o mnem_text(fn))
      [] y.type = "I" ->
           fmt_field_byte(<<"o", "p", ":", " ", " ", " ">>, y.op, <<" ", " ", " ", " ", "(">> \o mnem_text(op))
           \o fmt_field_byte(<<"r", "s", ":", " ", " ", " ">>, f_rs(y), <<" ", " ", " ", " ", "(", "$">> \o rs)
           \o fmt_field_byte(<<"r", "t", ":", " ", " ", " ">>, f_rt(y), <<" ", " ", " ", " ", "(", "$">> \o rt)
           \o <<"i", "m", "m", ":", " ", " ", "0", "x">> \o HexN(BitsOf(f_imm(y) % 65536), 4) \o <<" ", " ", "(">>
           \o DecStr(f_imm(y)) \o <<")", "\n">>
      [] y.type = "J" ->
           fmt_field_byte(<<"o", "p", ":", " ", " ", " ", " ">>, y.op, <<" ", " ", " ", " ", " ", " ", "(">> \o mnem_text(op))
           \o <<"a", "d", "d", "r", ":", " ", " ", "0", "x">> \o HexN(f_addr(y), 8) \o <<" ", " ", "(">>
           \o DecWord(f_addr(y)) \o <<")", "\n">>

\* mipsu_fmt_field(w, f, b, c): the text written to b.
mipsu_fmt_field(x, y, cc, g) ==
    fmt_field_head(x, y, cc, op_entry(y.op, g).mnem)
    \o fmt_field_body(y, reg_text(reg_entry(f_rs(y), g), cc),
                       reg_text(reg_entry(f_rt(y), g), cc),
                       reg_text(reg_entry(f_rd(y), g), cc),
                       fn_entry(f_fn(y), g).mnem, op_entry(y.op, g).mnem)

\* mipsu_dump_encoded(f, c): what is written to c.o.
mipsu_dump_encoded(y, cc, g) ==
    IF mipsu_get_flag(cc, "QUIET") THEN mipsu_dump_word(mipsu_encode(y), cc)
    ELSE mipsu_fmt_field(mipsu_encode(y), y, cc, g)

(***************************************************************************)
(* The batch drivers (lines 1308-1334, 1349-1404).                         *)
(*   pc = "arg":   mipsu_arg_asm(line, c)                                  *)
(*   pc = "file":  mipsu_file_asm(c), one iteration of its loop per step   *)
(*   pc = "dfile": mipsu_file_disasm(c), one iteration of its loop per     *)
(*                 step                                                    *)
(*   pc = "encode": mipsu_args_encode(n, args, c)                          *)
(*   pc = "arg_decode": mipsu_arg_decode(line, c)                          *)
(*   pc = "arg_disasm": mipsu_arg_disasm(line, c)                          *)
(***************************************************************************)
\* A file has at most MaxLines lines.
MaxLines == 2

\* ""
EmptyLine == <<>>

\* " "
BlankLine == <<" ">>

\* ", "
CommaLine == <<",", " ">>

\* "syscall"
SyscallLine == <<"s", "y", "s", "c", "a", "l", "l">>

\* "add $t0, $t1, $t2"
AddLine == <<"a", "d", "d", " ", "$", "t", "0", ",", " ", "$", "t", "1", ",", " ", "$", "t", "2">>

\* "add $t0, $t1"
ShortAddLine == <<"a", "d", "d", " ", "$", "t", "0", ",", " ", "$", "t", "1">>

\* "jr ra"
BareRegLine == <<"j", "r", " ", "r", "a">>

\* "j 0x00000004"
JumpLine == <<"j", " ", "0", "x", "0", "0", "0", "0", "0", "0", "0", "4">>

\* "nop $t0"
BadOpLine == <<"n", "o", "p", " ", "$", "t", "0">>

\* "lw $t0, 0x0004( $sp )"
LoadLine == <<"l", "w", " ", "$", "t", "0", ",", " ", "0", "x", "0", "0", "0", "4", "(", " ", "$", "s", "p", " ", ")">>

\* "add $t0 $t1 $t2 $t3"
LongLine == <<"a", "d", "d", " ", "$", "t", "0", " ", "$", "t", "1", " ", "$", "t", "2", " ", "$", "t", "3">>

AsmLines == {EmptyLine, BlankLine, CommaLine, SyscallLine, AddLine, ShortAddLine,
             BareRegLine, JumpLine, BadOpLine, LoadLine, LongLine}

\* "syscall $t0"
SyscallArgLine == <<"s", "y", "s", "c", "a", "l", "l", " ", "$", "t", "0">>

\* "jr $ra, $t0"
ExtraRegLine == <<"j", "r", " ", "$", "r", "a", ",", " ", "$", "t", "0">>

\* The lines given to mipsu_arg_asm.
\* "add $t0, $t1, $t2", as many spaces as mipsu_cp_buff has bytes, "$t3"
OverlongLine == AddLine \o Spaces(mipsu_cp_len) \o <<"$", "t", "3">>

\* "j 0x03FFFFFF"
JumpMaxLine == <<"j", " ", "0", "x", "0", "3", "F", "F", "F", "F", "F", "F">>

\* "j 0x04000000"
JumpOverLine == <<"j", " ", "0", "x", "0", "4", "0", "0", "0", "0", "0", "0">>

\* "j 0x0400000Z"
JumpBadLine == <<"j", " ", "0", "x", "0", "4", "0", "0", "0", "0", "0", "Z">>

\* "j 4294967296"
JumpWrapLine == <<"j", " ", "4", "2", "9", "4", "9", "6", "7", "2", "9", "6">>

\* "jal 67108864"
JumpDecOverLine == <<"j", "a", "l", " ", "6", "7", "1", "0", "8", "8", "6", "4">>

\* "jal 12"
JalDecLine == <<"j", "a", "l", " ", "1", "2">>

JumpLines == {JumpMaxLine, JumpOverLine, JumpBadLine, JumpWrapLine, JumpDecOverLine, JalDecLine}

\* "sll $t0, $t1, 31"
ShiftMaxLine == <<"s", "l", "l", " ", "$", "t", "0", ",", " ", "$", "t", "1", ",", " ", "3", "1">>

\* "sll $t0, $t1, 32"
ShiftDecOverLine == <<"s", "l", "l", " ", "$", "t", "0", ",", " ", "$", "t", "1", ",", " ", "3", "2">>

\* "sll $t0, $t1, 63"
ShiftDecTopLine == <<"s", "l", "l", " ", "$", "t", "0", ",", " ", "$", "t", "1", ",", " ", "6", "3">>

\* "sll $t0, $t1, 64"
ShiftDecOutLine == <<"s", "l", "l", " ", "$", "t", "0", ",", " ", "$", "t", "1", ",", " ", "6", "4">>

\* "sll $t0, $t1, 0x1F"
ShiftHexLine == <<"s", "l", "l", " ", "$", "t", "0", ",", " ", "$", "t", "1", ",", " ", "0", "x", "1", "F">>

\* "sll $t0, $t1, 0x20"
ShiftHexOverLine == <<"s", "l", "l", " ", "$", "t", "0", ",", " ", "$", "t", "1", ",", " ", "0", "x", "2", "0">>

\* "srl $t0, $t1, 0b11111"
ShiftBinLine == <<"s", "r", "l", " ", "$", "t", "0", ",", " ", "$", "t", "1", ",", " ", "0", "b", "1", "1", "1", "1", "1">>

\* "addi $t0, $t1, 40000"
ImmDecHighLine == <<"a", "d", "d", "i", " ", "$", "t", "0", ",", " ", "$", "t", "1", ",", " ", "4", "0", "0", "0", "0">>

\* "addi $t0, $t1, -65535"
ImmDecLowLine == <<"a", "d", "d", "i", " ", "$", "t", "0", ",", " ", "$", "t", "1", ",", " ", "-", "6", "5", "5", "3", "5">>

\* "addi $t0, $t1, 65536"
ImmDecOutLine == <<"a", "d", "d", "i", " ", "$", "t", "0", ",", " ", "$", "t", "1", ",", " ", "6", "5", "5", "3", "6">>

\* "addi $t0, $t1, 0xFFFF"
ImmHexLine == <<"a", "d", "d", "i", " ", "$", "t", "0", ",", " ", "$", "t", "1", ",", " ", "0", "x", "F", "F", "F", "F">>

\* Lines with a shift amount or an immediate in each literal form.
OperandLines == {ShiftMaxLine, ShiftDecOverLine, ShiftDecTopLine, ShiftDecOutLine,
                 ShiftHexLine, ShiftHexOverLine, ShiftBinLine, ImmDecHighLine,
                 ImmDecLowLine, ImmDecOutLine, ImmHexLine}

ArgLines == AsmLines \cup {SyscallArgLine, ExtraRegLine, OverlongLine} \cup JumpLines
            \cup OperandLines

RECURSIVE LinesUpTo(_)
\* The sequences of at most k lines, each ended by a newline.
LinesUpTo(k) ==
    IF k = 0 THEN {<<>>}
    ELSE LinesUpTo(k - 1) \cup
         { Append(ls, Append(l, "\n")) : ls \in LinesUpTo(k - 1), l \in AsmLines }

\* Files of at most MaxLines lines; the last line may lack its newline.
Files ==
    LinesUpTo(MaxLines) \cup
    { Append(ls, l) : ls \in LinesUpTo(MaxLines - 1), l \in AsmLines \ {<<>>} }

\* "0x00221820"
ExampleLine == <<"0", "x", "0", "0", "2", "2", "1", "8", "2", "0">>

\* "12"
DecLine == <<"1", "2">>

\* "0x0022182Z"
BadHexLine == <<"0", "x", "0", "0", "2", "2", "1", "8", "2", "Z">>

\* "0"
ZeroLine == <<"0">>

WordLines == {EmptyLine, ExampleLine, DecLine, BadHexLine, ZeroLine}

RECURSIVE WordLinesUpTo(_)
\* The sequences of at most k lines of words, each ended by a newline.
WordLinesUpTo(k) ==
    IF k = 0 THEN {<<>>}
    ELSE WordLinesUpTo(k - 1) \cup
         { Append(ls, Append(l, "\n")) : ls \in WordLinesUpTo(k - 1), l \in WordLines }

\* Files of at most MaxLines words; the last line may lack its newline.
WordFiles ==
    WordLinesUpTo(MaxLines) \cup
    { Append(ls, l) : ls \in WordLinesUpTo(MaxLines - 1), l \in WordLines \ {<<>>} }

\* Type specifiers given to the field encoder.
TypeArgs == {<<"R">>, <<"-", "r">>, <<"I">>, <<"-", "i">>, <<"J">>, <<"-", "j">>,
             <<"-", "J">>, <<"x">>, <<"-", "R", "x">>, <<"R", "J">>, <<>>}

\* What follows the type specifier: the sub-fields of add $3, $1, $2, of
\* addi $2, $1, 4, of an I form with op 0 and with op 2, of j 4 and of
\* jal 12, a literal that does not parse, too few and too many values.
FieldArgs ==
    { <<<<"1">>, <<"2">>, <<"3">>, <<"0", "x", "0", "0">>, <<"0", "x", "2", "0">>>>,
      <<<<"0", "x", "0", "8">>, <<"1">>, <<"2">>, <<"0", "x", "0", "0", "0", "4">>>>,
      <<<<"0", "x", "0", "0">>, <<"1">>, <<"2">>, <<"0", "x", "0", "0", "0", "4">>>>,
      <<<<"2">>, <<"1">>, <<"2">>, <<"-", "4">>>>,
      <<<<"0", "x", "0", "2">>, <<"0", "x", "0", "0", "0", "0", "0", "0", "4">>>>,
      <<<<"3">>, <<"1", "2">>>>,
      <<<<"0", "x", "0", "8">>, <<"1">>, <<"2">>, <<"0">>>>,
      <<<<"0", "x", "0", "8">>, <<"1">>>>,
      <<<<"1">>, <<"2">>, <<"3">>, <<"0", "x", "0", "0">>, <<"0", "x", "2", "0">>, <<"1">>>>,
      <<>> }

\* The words given to mipsu_arg_decode and mipsu_arg_disasm: every fn with
\* op = 0 and every op, with the operands of TextWords for k in ArgTuples.
ArgTuples == {0, 9, 31}

ArgWords ==
    { RWord(k % 32, (k + 11) % 32, (k + 22) % 32, (k + 5) % 32, vn) :
        k \in ArgTuples, vn \in 0..63 }
    \cup
    { IWord(vo, k % 32, (k + 11) % 32, ImmOf(vo, k)) :
        k \in ArgTuples, vo \in (1..63) \ {2, 3} }
    \cup
    { JWord(vo, va) : vo \in {2, 3}, va \in TextAddrs }
    \cup {ExampleWord}

\* Their literals, "0x" and eight hexadecimal digits, and two literals
\* that do not parse.
WordArgs == { <<"0", "x">> \o HexN(x, 8) : x \in ArgWords } \cup {BadHexLine, ZeroLine}

EncodeArgs == {<<>>} \cup {<<ty>> \o tail : ty \in TypeArgs, tail \in FieldArgs}

FileOptions == {{}, {"STRICT"}, {"QUIET"}}

\* strchr(mipsu_chr_buff, '\n'): the offset of the first newline, -1 when
\* there is none (a null pointer).
RECURSIVE strchr_from(_, _)
strchr_from(str, i) ==
    IF Ch(str, i) = "\n" THEN i
    ELSE IF Ch(str, i) = NUL THEN -1
    ELSE strchr_from(str, i + 1)

strchr_nl(str) == strchr_from(str, 0)

\* The locals after mipsu_asm returned q for the tokens p.
asm_done(p, q) == [r |-> q.r, a |-> p.a, n |-> p.n, buf |-> p.buf, f |-> q.f]

\* if (!r) r = mipsu_asm(n, a, &f, c), p what mipsu_parse_asm returned
asm_tokens(p, fv, cc, gw) ==
    IF p.r # "OK" THEN [r |-> p.r, a |-> p.a, n |-> p.n, buf |-> p.buf, f |-> fv]
    ELSE asm_done(p, mipsu_asm(p.n, p.buf, p.a, cc, gw))

\* r = mipsu_parse_asm(s, a, &n); if (!r) r = mipsu_asm(n, a, &f, c);
\* (lines 1366-1370 with 1354, lines 1389-1391): [r, a, n, buf, f].
parse_and_asm(str, av, fv, cc, gw) == asm_tokens(mipsu_parse_asm(str, av), fv, cc, gw)

\* mipsu_chr_buff after mipsu_dump_asm: mipsu_dump_instr formats into it.
chr_buff_after_dump(old, y, cc, g) ==
    IF mipsu_get_flag(cc, "QUIET") THEN old ELSE mipsu_disasm(y, cc, g)

InitFile ==
    /\ LitIdle
    /\ w0 = {} /\ f0 = ZeroField
    /\ mipsu_chr_buff = <<>>
    /\ mipsu_cp_buff = <<>>
    /\ a = NoTokens
    /\ n = 0
    /\ o = <<>>
    /\ skipped = FALSE
    /\ consumed = <<>>
    /\ c \in FileOptions
    /\ \/ /\ pc = "arg"
          /\ line \in ArgLines
          /\ file = <<>>
          /\ args = <<>>
          /\ f = ZeroField
          /\ w = {}
       \/ /\ pc = "file"
          /\ line = <<>>
          /\ file \in Files
          /\ args = <<>>
          /\ f \in JunkFields
          /\ w = {}
       \/ /\ pc = "dfile"
          /\ line = <<>>
          /\ file \in WordFiles
          /\ args = <<>>
          /\ f = ZeroField
          /\ w \in JunkWords
       \/ /\ pc = "encode"
          /\ line = <<>>
          /\ file = <<>>
          /\ args \in EncodeArgs
          /\ f \in JunkFields
          /\ w = {}
       \/ /\ pc \in {"arg_decode", "arg_disasm"}
          /\ line \in WordArgs
          /\ file = <<>>
          /\ args = <<>>
          /\ f = ZeroField
          /\ w = {}

\* The locals and the buffers after a line str was tokenized and
\* assembled with result res, and mipsu_dump_asm called when it is OK.
LineAssembled(str, res, g) ==
    /\ r' = res.r
    /\ a' = res.a
    /\ n' = res.n
    /\ mipsu_cp_buff' = res.buf
    /\ f' = res.f
    /\ w' = IF res.r = "OK" THEN mipsu_encode(res.f) ELSE w
    /\ o' = IF res.r = "OK" THEN Append(o, mipsu_dump_asm(res.f, c, g)) ELSE o
    /\ mipsu_chr_buff' = IF res.r = "OK" THEN chr_buff_after_dump(str, res.f, c, g)
                         ELSE str

\* mipsu_arg_asm(line, c)
ArgAsm ==
    /\ pc = "arg"
    /\ \E gw \in JunkWords, g \in JunkReads :
          LineAssembled(mipsu_chr_buff, parse_and_asm(line, a, f, c, gw), g)
    /\ pc' = IF r' = "SIGSEGV" THEN "crashed" ELSE "arg_done"
    /\ UNCHANGED <<w0, f0, litVars, c, line, fileVars>>

\* if (r) { if (strict) return r; mipsu_wrnrv(...); s = true; continue; }
\* (lines 1393-1398)
LineResult ==
    /\ skipped' = (skipped \/ (r' \notin {"OK", "SIGSEGV"} /\ ~mipsu_get_flag(c, "STRICT")))
    /\ pc' = CASE r' = "SIGSEGV" -> "crashed"
                [] r' \notin {"OK", "SIGSEGV"} /\ mipsu_get_flag(c, "STRICT") -> "file_done"
                [] OTHER -> "file"

\* The loop body for the line str read into mipsu_chr_buff, its newline
\* replaced by NUL (lines 1387-1400).
FileLine(str) ==
    IF str = <<>>
    THEN \* if (!strlen(mipsu_chr_buff)) continue;
         /\ mipsu_chr_buff' = str
         /\ line' = str
         /\ UNCHANGED <<pc, codecVars, r, mipsu_cp_buff, a, n, o, skipped>>
    ELSE /\ line' = str
         /\ \E gw \in JunkWords, g \in JunkReads :
               LineAssembled(str, parse_and_asm(str, a, f, c, gw), g)
         /\ LineResult
         /\ UNCHANGED <<w0, f0>>

\* One iteration of the while loop of mipsu_file_asm (lines 1383-1401):
\* fgets reads the next line into mipsu_chr_buff.
FileAsmLine ==
    /\ pc = "file"
    /\ file # <<>>
    /\ file' = Tail(file)
    /\ consumed' = Append(consumed, Head(file))
    /\ IF strchr_nl(Head(file)) = -1
       THEN \* *strchr(mipsu_chr_buff, '\n') = 0 stores through a null pointer
            /\ mipsu_chr_buff' = Head(file)
            /\ r' = "SIGSEGV"
            /\ pc' = "crashed"
            /\ UNCHANGED <<codecVars, line, mipsu_cp_buff, a, n, o, skipped>>
       ELSE FileLine(SubSeq(Head(file), 1, strchr_nl(Head(file))))
    /\ UNCHANGED <<litVars, c, args>>

\* fgets returns null at the end of the file:
\* return s ? MIPSU_RESULT_SKIPPED : MIPSU_RESULT_OK;
FileAsmEnd ==
    /\ pc = "file"
    /\ file = <<>>
    /\ r' = IF skipped THEN "SKIPPED" ELSE "OK"
    /\ pc' = "file_done"
    /\ UNCHANGED <<codecVars, litVars, textVars, fileVars>>

\* The locals and the buffers after the line str was parsed as a word
\* with result res, and mipsu_dump_disasm called when it is OK
\* (lines 1321-1330).
WordDisassembled(str, res, gf, g) ==
    /\ line' = str
    /\ r' = res.r
    /\ w' = res.out
    /\ f' = IF res.r = "OK" THEN mipsu_decode(res.out, gf) ELSE f
    /\ o' = IF res.r = "OK"
            THEN Append(o, mipsu_dump_disasm(res.out, mipsu_decode(res.out, gf), c, g))
            ELSE o
    /\ mipsu_chr_buff' = IF res.r = "OK" THEN mipsu_disasm(mipsu_decode(res.out, gf), c, g)
                         ELSE str
    /\ skipped' = (skipped \/ (res.r # "OK" /\ ~mipsu_get_flag(c, "STRICT")))
    /\ pc' = IF res.r # "OK" /\ mipsu_get_flag(c, "STRICT") THEN "dfile_done" ELSE "dfile"

\* One iteration of the while loop of mipsu_file_disasm (lines 1317-1331).
FileDisasmLine ==
    /\ pc = "dfile"
    /\ file # <<>>
    /\ file' = Tail(file)
    /\ consumed' = Append(consumed, Head(file))
    /\ IF strchr_nl(Head(file)) = -1
       THEN \* *strchr(mipsu_chr_buff, '\n') = 0 stores through a null pointer
            /\ mipsu_chr_buff' = Head(file)
            /\ r' = "SIGSEGV"
            /\ pc' = "dfile_crashed"
            /\ UNCHANGED <<w, f, line, o, skipped>>
       ELSE \E gf \in JunkFields, g \in JunkReads :
               WordDisassembled(SubSeq(Head(file), 1, strchr_nl(Head(file))),
                                mipsu_parse_word(SubSeq(Head(file), 1, strchr_nl(Head(file))), w),
                                gf, g)
    /\ UNCHANGED <<w0, f0, litVars, c, mipsu_cp_buff, a, n, args>>

\* fgets returns null at the end of the file:
\* return s ? MIPSU_RESULT_SKIPPED : MIPSU_RESULT_OK; (line 1333)
FileDisasmEnd ==
    /\ pc = "dfile"
    /\ file = <<>>
    /\ r' = IF skipped THEN "SKIPPED" ELSE "OK"
    /\ pc' = "dfile_done"
    /\ UNCHANGED <<codecVars, litVars, textVars, fileVars>>

\* The locals and the buffers after mipsu_parse_field returned res, and
\* mipsu_dump_encoded called when it is OK (lines 1276-1280).
FieldEncoded(res, g) ==
    /\ r' = res.r
    /\ f' = res.f
    /\ w' = IF res.r = "OK" THEN mipsu_encode(res.f) ELSE w
    /\ o' = IF res.r = "OK" THEN Append(o, mipsu_dump_encoded(res.f, c, g)) ELSE o
    /\ mipsu_chr_buff' = IF res.r = "OK" /\ ~mipsu_get_flag(c, "QUIET")
                         THEN mipsu_fmt_field(mipsu_encode(res.f), res.f, c, g)
                         ELSE mipsu_chr_buff

\* mipsu_args_encode(n, args, c)
ArgsEncode ==
    /\ pc = "encode"
    /\ \E gw \in JunkWords, g \in JunkReads :
          FieldEncoded(mipsu_parse_field(args, f, c, gw), g)
    /\ pc' = "encode_done"
    /\ UNCHANGED <<w0, f0, litVars, c, line, mipsu_cp_buff, a, n, fileVars>>

\* mipsu_dump_decoded(w, c): what is written to c.o, y being the field
\* mipsu_decode(w) assigned to the local f.
mipsu_dump_decoded(x, y, cc, g) == mipsu_fmt_field(x, y, cc, g)

\* The locals and the buffers after mipsu_parse_word returned res, and
\* mipsu_dump_decoded called when it is OK (lines 1261-1267).
WordDecoded(res, gf, g) ==
    /\ r' = res.r
    /\ w' = res.out
    /\ f' = IF res.r = "OK" THEN mipsu_decode(res.out, gf) ELSE f
    /\ o' = IF res.r = "OK"
            THEN Append(o, mipsu_dump_decoded(res.out, mipsu_decode(res.out, gf), c, g))
            ELSE o
    /\ mipsu_chr_buff' = IF res.r = "OK"
                         THEN mipsu_fmt_field(res.out, mipsu_decode(res.out, gf), c, g)
                         ELSE mipsu_chr_buff

\* mipsu_arg_decode(line, c)
ArgDecode ==
    /\ pc = "arg_decode"
    /\ \E gw \in JunkWords, gf \in JunkFields, g \in JunkReads :
          WordDecoded(mipsu_parse_word(line, gw), gf, g)
    /\ pc' = "arg_decoded"
    /\ UNCHANGED <<w0, f0, litVars, c, line, mipsu_cp_buff, a, n, fileVars>>

\* The locals and the buffers after mipsu_parse_word returned res, and
\* mipsu_dump_disasm called when it is OK (lines 1340-1346).
WordRendered(res, gf, g) ==
    /\ r' = res.r
    /\ w' = res.out
    /\ f' = IF res.r = "OK" THEN mipsu_decode(res.out, gf) ELSE f
    /\ o' = IF res.r = "OK"
            THEN Append(o, mipsu_dump_disasm(res.out, mipsu_decode(res.out, gf), c, g))
            ELSE o
    /\ mipsu_chr_buff' = IF res.r = "OK" THEN mipsu_disasm(mipsu_decode(res.out, gf), c, g)
                         ELSE mipsu_chr_buff

\* mipsu_arg_disasm(line, c)
ArgDisasm ==
    /\ pc = "arg_disasm"
    /\ \E gw \in JunkWords, gf \in JunkFields, g \in JunkReads :
          WordRendered(mipsu_parse_word(line, gw), gf, g)
    /\ pc' = "arg_disasmed"
    /\ UNCHANGED <<w0, f0, litVars, c, line, mipsu_cp_buff, a, n, fileVars>>

NextFile ==
    \/ ArgAsm \/ FileAsmLine \/ FileAsmEnd \/ FileDisasmLine \/ FileDisasmEnd
    \/ ArgsEncode \/ ArgDecode \/ ArgDisasm

SpecFile == InitFile /\ [][NextFile]_vars

(***************************************************************************)
(* Claims about the assembly drivers.                                      *)
(***************************************************************************)
\* A line has just been tokenized and assembled.
LineDone == pc = "arg_done" \/ (pc = "file" /\ line # <<>>)

\* The results of tokenizing and assembling a line on its own.
ResultsAlone(str, cc) ==
    { parse_and_asm(str, NoTokens, ZeroField, cc, gw).r : gw \in JunkWords }

\* C8: assembly never crashes: for every line, an empty one or one made
\* only of separators included, tokenizing and assembling returns Ok or a
\* typed error; the result depends only on the line and the options, not
\* on the lines before it; and no token absent from the line is read
\* (mipsu_asm reads a[0] whenever the tokenizer returned Ok, so n is at
\* least 1 then).
C8_AsmTotal ==
    /\ pc # "crashed"
    /\ r # "SIGSEGV"
    /\ LineDone => /\ n >= 1
                   /\ r \in ResultsAlone(line, c)

\* A batch run of mipsu_file_asm / mipsu_file_disasm has ended or is under
\* way.
AsmBatch == pc \in {"file", "file_done"} \/ (pc = "crashed" /\ consumed # <<>>)
DisasmBatch == pc \in {"dfile", "dfile_done", "dfile_crashed"}
BatchEnded ==
    \/ pc \in {"file_done", "dfile_done", "dfile_crashed"}
    \/ pc = "crashed" /\ consumed # <<>>

\* A line of the file without its newline.
LineText(l) == IF strchr_nl(l) = -1 THEN l ELSE SubSeq(l, 1, strchr_nl(l))

\* The lines of the file, read or not.
AllLines == [i \in 1..(Len(consumed) + Len(file)) |-> LineText((consumed \o file)[i])]

\* What parsing the line str on its own yields: the result and, when the
\* result is OK, the text written for it.
AsmOutcomes(str, cc) ==
    { [r |-> parse_and_asm(str, NoTokens, ZeroField, cc, gw).r,
       text |-> IF parse_and_asm(str, NoTokens, ZeroField, cc, gw).r = "OK"
                THEN mipsu_dump_asm(parse_and_asm(str, NoTokens, ZeroField, cc, gw).f, cc, g)
                ELSE <<>>] : gw \in JunkWords, g \in JunkReads }

DisasmOutcomes(str, cc) ==
    { [r |-> mipsu_parse_word(str, gw).r,
       text |-> IF mipsu_parse_word(str, gw).r = "OK"
                THEN mipsu_dump_disasm(mipsu_parse_word(str, gw).out,
                                       mipsu_decode(mipsu_parse_word(str, gw).out, gf), cc, g)
                ELSE <<>>] : gw \in JunkWords, gf \in JunkFields, g \in JunkReads }

Outcomes(str) == IF DisasmBatch THEN DisasmOutcomes(str, c) ELSE AsmOutcomes(str, c)

\* The line parses / fails to parse; mipsu_file_asm passes over an empty
\* line, which is neither.
PassedOver(str) == ~DisasmBatch /\ str = <<>>
Parses(str) == ~PassedOver(str) /\ \A x \in Outcomes(str) : x.r = "OK"
Fails(str) == ~PassedOver(str) /\ \A x \in Outcomes(str) : x.r # "OK"

RECURSIVE OutputOf(_, _)
\* texts is the output of the lines ls: one text for every line that
\* parses, in the order of the lines, and nothing else.
OutputOf(texts, ls) ==
    IF ls = <<>> THEN texts = <<>>
    ELSE IF Parses(Head(ls))
    THEN /\ texts # <<>>
         /\ \E x \in Outcomes(Head(ls)) : x.text = Head(texts)
         /\ OutputOf(Tail(texts), Tail(ls))
    ELSE OutputOf(texts, Tail(ls))

\* C14: in batch disassembly or assembly without STRICT, a line that fails
\* to parse is skipped and processing continues: when the run has ended,
\* every line of the file that parses has produced its output, in input
\* order, whatever failed before it, and the result is SKIPPED if at least
\* one line failed and OK otherwise.
C14_BatchSkips ==
    (BatchEnded /\ ~mipsu_get_flag(c, "STRICT")) =>
        /\ OutputOf(o, AllLines)
        /\ r = IF \E i \in 1..Len(AllLines) : Fails(AllLines[i]) THEN "SKIPPED" ELSE "OK"

\* The first line of the file that fails to parse, 0 when none does.
FirstFailure ==
    IF \E i \in 1..Len(AllLines) : Fails(AllLines[i])
    THEN CHOOSE i \in 1..Len(AllLines) :
            Fails(AllLines[i]) /\ \A j \in 1..(i - 1) : ~Fails(AllLines[j])
    ELSE 0

\* C15: in batch disassembly or assembly with STRICT, the run stops at the
\* first line that fails to parse: it returns that line's error kind,
\* output has been produced for exactly the lines before it, and no later
\* line has been read; with no failing line every line has its output
\* and the result is OK.
C15_BatchStrict ==
    (BatchEnded /\ mipsu_get_flag(c, "STRICT")) =>
        IF FirstFailure = 0
        THEN /\ r = "OK"
             /\ file = <<>>
             /\ OutputOf(o, AllLines)
        ELSE /\ \E x \in Outcomes(AllLines[FirstFailure]) : x.r = r
             /\ r \notin {"OK", "SIGSEGV"}
             /\ Len(consumed) = FirstFailure
             /\ OutputOf(o, SubSeq(AllLines, 1, FirstFailure - 1))

\* The number of operand tokens an operand format requires.
Operands(fmt) ==
    CASE fmt = "NONE" -> 0
      [] fmt \in {"RS", "RD", "ADDR"} -> 1
      [] fmt \in {"RS_RT", "RS_IMM", "RT_IMM"} -> 2
      [] OTHER -> 3

\* mipsu_asm has been called with the tokens of the line and its first
\* token is a mnemonic of the tables.
AsmDispatched ==
    /\ LineDone
    /\ n >= 1
    /\ mipsu_parse_asm(line, NoTokens).r = "OK"
    /\ mipsu_parse_op(token(mipsu_cp_buff, a, 0)).r = "OK"
    /\ mipsu_parse_op(token(mipsu_cp_buff, a, 0)).e.fmt # "UNKNOWN"

\* C16: after dispatching on the operand format, assemble returns
\* BAD_OP_FMT whenever the number of operand tokens differs from the
\* number the format requires; a mnemonic of format NONE is accepted only
\* with no operand token.
C16_OperandCount ==
    (AsmDispatched /\ n - 1 # Operands(mipsu_parse_op(token(mipsu_cp_buff, a, 0)).e.fmt)) =>
        r = "BAD_OP_FMT"

\* C17: the tokenizer rejects with BUFF_OVERFLOW every line longer than
\* mipsu_cp_buff (1024 bytes): no such line is truncated and tokenized.
C17_LongLine ==
    (pc \in {"arg_done", "crashed"} /\ Len(line) > mipsu_cp_len) =>
        /\ r = "BUFF_OVERFLOW"
        /\ n = 0

\* mipsu_asm has parsed the one address literal of a j or a jal.
JumpDone ==
    /\ pc = "arg_done"
    /\ n = 2
    /\ token(mipsu_cp_buff, a, 0) \in {<<"j">>, <<"j", "a", "l">>}

\* The position of the highest 1 bit of the value a well-formed literal
\* denotes, -1 for zero.
LiteralTop(str) ==
    IF Ch(str, 0) # "0" THEN TopBit(str)
    ELSE IF mipsu_parse_word(str, {}).out = {} THEN -1
    ELSE CHOOSE i \in mipsu_parse_word(str, {}).out :
            \A j \in mipsu_parse_word(str, {}).out : j <= i

\* C19: assembling j or jal with one address literal succeeds only when
\* the literal is well-formed and its value is below 2^26, and then addr
\* is that value; a well-formed literal of value 2^26 or more yields
\* FIELD_OVERFLOW; a malformed literal yields the error kind of the
\* literal parser, whatever the address variable held before.
C19_JumpAddr ==
    JumpDone =>
        IF mipsu_parse_word(token(mipsu_cp_buff, a, 1), {}).r = "OK"
        THEN IF LiteralTop(token(mipsu_cp_buff, a, 1)) < 26
             THEN /\ r = "OK"
                  /\ f.type = "J"
                  /\ f_addr(f) = mipsu_parse_word(token(mipsu_cp_buff, a, 1), {}).out
             ELSE r = "FIELD_OVERFLOW"
        ELSE r = mipsu_parse_word(token(mipsu_cp_buff, a, 1), {}).r

\* The type of a field agrees with its op.
TagAgrees(x) ==
    /\ x.type = "R" <=> x.op = 0
    /\ x.type = "J" <=> x.op \in {2, 3}
    /\ x.type = "I" <=> x.op \notin {0, 2, 3}

\* f has been built by mipsu_decode, by a successful mipsu_asm or by a
\* successful mipsu_parse_field, and given to mipsu_disasm or
\* mipsu_encode.
FieldDecoded == DisasmBatch /\ o # <<>>
FieldAssembled == (pc = "arg_done" \/ AsmBatch) /\ LineDone /\ r = "OK"
FieldParsed == pc = "encode_done" /\ r = "OK"

\* C20: every field that reaches mipsu_encode or mipsu_disasm, built by
\* mipsu_decode, by a successful assembly or by the field parser of the
\* encode command, has type R if and only if op = 0, type J if and only
\* if op is 2 or 3, and type I for every other op.
C20_TypeTag ==
    (FieldDecoded \/ FieldAssembled \/ FieldParsed) => TagAgrees(f)

\* The field x read back from the word mipsu_encode gives for it, whatever
\* the local of mipsu_decode held before.
ReadBack(x) == \A g \in JunkFields : SameForm(mipsu_decode(mipsu_encode(x), g), x)

\* C21: every field a successful assembly returns has all sub-fields
\* within their declared bit widths (rs, rt, rd, sh in 0..31; fn, op in
\* 0..63; addr below 2^26), and decoding the word it encodes to gives back
\* the same field, whichever literal form (decimal, hexadecimal, binary)
\* the shift amount, the immediate or the address was written in.
C21_Widths == FieldAssembled => (WellFormed(f) /\ ReadBack(f))

\* The members of struct mipsu_field each form holds (lines 134-154), which
\* are the members mipsu_decode assigns for it (lines 1043-1058).
form_members(ty) ==
    CASE ty = "R" -> {"rs", "rt", "rd", "sh", "fn"}
      [] ty = "I" -> {"rs", "rt", "imm"}
      [] ty = "J" -> {"addr"}

\* The indices mipsu_disasm and mipsu_fmt_field read mipsu_reg_lut at
\* (lines 1088-1090 and 967-969), whatever the type of the field.
reg_lookups(x) == {f_rs(x), f_rt(x), f_rd(x)}

\* The members of the field mipsu_disasm reads before its switch: rs, rt
\* and rd for the register table, fn for an R form (lines 1088-1107).
disasm_reads(x) == {"rs", "rt", "rd"} \cup (IF x.type = "R" THEN {"fn"} ELSE {})

\* The index mipsu_disasm reads mipsu_fn_lut or mipsu_op_lut at.
disasm_lookup(x) == IF x.type = "R" THEN f_fn(x) ELSE x.op

\* The members of the field mipsu_fmt_field reads before its switch: rs,
\* rt and rd for the register table, fn for mipsu_fn_lut (lines 967-977).
fmt_field_reads(x) == {"rs", "rt", "rd", "fn"}

\* The indices mipsu_fmt_field reads mipsu_fn_lut and mipsu_op_lut at
\* (lines 977-978).
fmt_field_lookups(x) == {f_fn(x), x.op}

\* mipsu_arg_disasm has disassembled, mipsu_arg_decode has dumped, the
\* field f = mipsu_decode(w).
WordDisasmDone == pc = "arg_disasmed" /\ r = "OK"
WordDecodeDone == pc = "arg_decoded" /\ r = "OK"

\* C22: for every word w, disassembling or field-dumping decode(w) reads
\* only members of the form decode gave the field, which are the members
\* decode assigned, and reads the 32-entry register table at indices
\* 0..31 and the 64-entry opcode and function tables at indices 0..63.
C22_ActiveReads ==
    /\ WordDisasmDone =>
          /\ disasm_reads(f) \subseteq form_members(f.type)
          /\ reg_lookups(f) \subseteq 0..(mipsu_regc - 1)
          /\ disasm_lookup(f) \in 0..63
    /\ WordDecodeDone =>
          /\ fmt_field_reads(f) \subseteq form_members(f.type)
          /\ reg_lookups(f) \subseteq 0..(mipsu_regc - 1)
          /\ fmt_field_lookups(f) \subseteq 0..63

\* The op and the address literal of the encode command read as unsigned
\* literals of 6 and of 26 bits.
JumpOp == mipsu_parse_value(args[2], {}, TRUE, 6)
JumpAddr == mipsu_parse_value(args[3], {}, TRUE, 26)

\* mipsu_args_encode was given the J type specifier, an op literal of
\* value 0..63 and an address literal of value below 2^26.
JumpFieldGiven ==
    /\ pc = "encode_done"
    /\ Len(args) = 3
    /\ mipsu_parse_type(args[1], c) = [r |-> "OK", t |-> "J"]
    /\ JumpOp.r = "OK"
    /\ JumpOp.out \subseteq 0..5
    /\ JumpAddr.r = "OK"
    /\ JumpAddr.out \subseteq 0..25

\* C23: raw field encoding with the J type specifier, an op in 0..63 and
\* an address below 2^26 builds a J-form field holding that op and that
\* address, and the emitted word is (op << 26) | addr.
C23_JumpField ==
    JumpFieldGiven =>
        /\ r = "OK"
        /\ f.type = "J"
        /\ BitsOf(f.op) = JumpOp.out
        /\ f_addr(f) = JumpAddr.out
        /\ w = Or(Shl(JumpOp.out, mipsu_op_offset),
                  JumpAddr.out)

====
